---- MODULE Spec2Model ----
(***************************************************************************)
(* Session and query orchestration of the Pokedex client.                  *)
(*                                                                         *)
(*   AuthProvider (contexts/AuthContext.tsx)  session state machine        *)
(*   authApi      (services/api.ts)           remote calls, error mapping  *)
(*   App routes   (App.tsx)                   ProtectedRoute / PublicRoute *)
(*   LoginPage    (pages/LoginPage.tsx)       the only caller of login()   *)
(*   HomePage     (pages/HomePage.tsx)        query resolution and fetch   *)
(*                                                                         *)
(* Optional values (T | null | undefined) are sequences of length <= 1.    *)
(* Strings that the code inspects character by character are sequences of  *)
(* one-character strings.                                                  *)
(***************************************************************************)
EXTENDS Naturals, Integers, Sequences, FiniteSets, TLC

None == <<>>
Some(x) == <<x>>
IsSome(o) == o # <<>>
TheValue(o) == o[1]

(***************************************************************************)
(* Bounds of the model.                                                    *)
(***************************************************************************)
\* number of login calls that may be awaiting their response at once
MaxLogins == 2
\* longest search text that is enumerated
MaxLen == 3
\* largest page a request is resolved for
MaxPage == 3
\* number of fetchPokemon calls that may be awaiting the catalog at once
MaxInFlight == 2
\* input changes of one burst that are counted
MaxBurst == 2

(***************************************************************************)
(* Values.                                                                 *)
(***************************************************************************)
TOKEN_KEY == "pokemon_auth_token"
USER_KEY == "pokemon_user"

Tokens == {"t1", "t2"}
Usernames == {"ash", "misty"}
\* interface User { username: string }
User(n) == [username |-> n]
Users == {User(n) : n \in Usernames}
ServerMessages == {"Invalid credentials"}

\* JSON.stringify of a User object: the serialized text kept under USER_KEY
JSONstringify(u) == <<"{", "username", ":", u.username, "}">>
\* JSON texts that may be found under USER_KEY at process start: what login
\* wrote, the JSON literal null, and a text that is not JSON
NullJson == <<"null">>
CorruptJson == <<"{", "username">>
\* JSON.parse: [threw |-> TRUE] for a SyntaxError, else the parsed value
\* (None is the JavaScript null)
JSONparse(text) ==
  IF text = NullJson THEN [threw |-> FALSE, value |-> None]
  ELSE IF Len(text) = 5 /\ text[1] = "{" /\ text[2] = "username"
          /\ text[3] = ":" /\ text[5] = "}"
       THEN [threw |-> FALSE, value |-> Some([username |-> text[4]])]
       ELSE [threw |-> TRUE, value |-> None]

(***************************************************************************)
(* ApiResponse<T> and what the HTTP layer can produce for one request.     *)
(***************************************************************************)
ApiResponse(success, data, error) ==
  [success |-> success, data |-> data, error |-> error]

\* bodies a server may answer POST /auth/login with (status 2xx)
LoginData == {[token |-> t, user |-> u] : t \in Tokens, u \in Users}
LoginBodies ==
  {ApiResponse(TRUE, Some(d), None) : d \in LoginData}
    \cup {ApiResponse(TRUE, None, None)}
    \cup {ApiResponse(FALSE, None, Some(m)) : m \in ServerMessages}
    \cup {ApiResponse(FALSE, None, None)}
\* bodies a server may answer POST /auth/verify with (status 2xx)
VerifyBodies ==
  {ApiResponse(TRUE, Some([user |-> u]), None) : u \in Users}
    \cup {ApiResponse(TRUE, None, None)}
    \cup {ApiResponse(FALSE, None, Some("Invalid token"))}
    \cup {ApiResponse(FALSE, None, None)}
\* outcome of one axios call: a 2xx response, an error status whose body may
\* carry an error text, or no response at all (transport failure)
HttpOk(body) == [kind |-> "ok", body |-> Some(body), error |-> None]
HttpStatus(err) == [kind |-> "status", body |-> None, error |-> err]
HttpNetwork == [kind |-> "network", body |-> None, error |-> None]
HttpFailures ==
  {HttpStatus(Some(m)) : m \in ServerMessages} \cup {HttpStatus(None), HttpNetwork}
LoginOutcomes == {HttpOk(b) : b \in LoginBodies} \cup HttpFailures
VerifyOutcomes == {HttpOk(b) : b \in VerifyBodies} \cup HttpFailures

\* a || b on optional strings
OrElse(o, fallback) == IF IsSome(o) /\ TheValue(o) # "" THEN TheValue(o) ELSE fallback

\* authApi.login: the response body, or on any throw
\* { success: false, error: error.response?.data?.error || 'Login failed' }
authApiLogin(http) ==
  IF http.kind = "ok" THEN TheValue(http.body)
  ELSE ApiResponse(FALSE, None, Some(OrElse(http.error, "Login failed")))

\* authApi.verify: the response body, or on any throw
\* { success: false, error: 'Token verification failed' }
authApiVerify(http) ==
  IF http.kind = "ok" THEN TheValue(http.body)
  ELSE ApiResponse(FALSE, None, Some("Token verification failed"))

(***************************************************************************)
(* The catalog: what GET /pokemons can answer, and pokemonApi.             *)
(***************************************************************************)
\* pagination.total values a catalog answer carries: no match, one record
\* more than a page, and the 46 records of the spec's scenario
Totals == {0, 22, 46}
CatalogMessages == {"Not found"}

\* Pokemon[]: an array is kept as its length
Pokemons(n) == [length |-> n]
\* results a catalog answer carries: none when nothing matches, else a page
\* of records
Results(total) == IF total = 0 THEN Pokemons(0) ELSE Pokemons(21)

\* PaginatedResponse<Pokemon>
PaginatedResponse(results, total) ==
  [results |-> results, pagination |-> [total |-> total]]

\* bodies a server may answer a catalog request with (status 2xx)
CatalogBodies ==
  {ApiResponse(TRUE, Some(PaginatedResponse(Results(t), t)), None) : t \in Totals}
    \cup {ApiResponse(TRUE, None, None)}
    \cup {ApiResponse(FALSE, None, Some(m)) : m \in CatalogMessages}
    \cup {ApiResponse(FALSE, None, None)}
CatalogFailures == {HttpStatus(Some(m)) : m \in CatalogMessages} \cup {HttpNetwork}
CatalogOutcomes == {HttpOk(b) : b \in CatalogBodies} \cup CatalogFailures

\* pokemonApi.getList: the response body, or on any throw
\* { success: false, error: error.response?.data?.error || 'Failed to fetch Pokémon' }
pokemonApiGetList(http) ==
  IF http.kind = "ok" THEN TheValue(http.body)
  ELSE ApiResponse(FALSE, None, Some(OrElse(http.error, "Failed to fetch Pokémon")))

\* pokemonApi.getByNumber (lookupByIdentifiers): like the other calls of
\* pokemonApi it converts every failure into { success: false, error }
pokemonApiGetByNumber(http) ==
  IF http.kind = "ok" THEN TheValue(http.body)
  ELSE ApiResponse(FALSE, None, Some(OrElse(http.error, "Failed to fetch Pokémon")))

(***************************************************************************)
(* State.                                                                  *)
(***************************************************************************)
VARIABLES
  localStorage,   \* PersistentStore: key -> stored string or None
  user,           \* AuthProvider: useState<User | null>(null)
  isLoading,      \* AuthProvider: useState(true)
  checkAuth,      \* the mount effect: its position and the locals it captured
  logins,         \* login() calls awaiting authApi.login, oldest first
  loginForm,      \* LoginPage: its isLoading and error state
  route,          \* the location the router is at
  loginWrote,     \* the {token, user} pair login() last stored, while it is
                  \* still what the store holds (observation only)
  event           \* the operation that produced this state (observation only)

authVars ==
  <<localStorage, user, isLoading, checkAuth, logins, loginForm, route, loginWrote>>

VARIABLES
  search,         \* FilterProvider: useState('')
  sortByNumber,   \* FilterProvider: useState<boolean | null>(null)
  currentPage,    \* HomePage: useState(1)
  dispatched      \* the fetchPokemon calls the step that led here dispatched,
                  \* in order

VARIABLES
  pokemon,        \* HomePage: useState<Pokemon[]>([])
  homeIsLoading,  \* HomePage: useState(true), its isLoading
  homeError,      \* HomePage: useState(''), its error
  totalPages,     \* HomePage: useState(1)
  inputValue,     \* Header: useState(searchValue)
  timer,          \* Header: the pending setTimeout and the inputValue it captured
  inFlight,       \* fetchPokemon calls awaiting the catalog, oldest first: what
                  \* the rest of each call still reads, the branch it took
  typed,          \* input changes since the timer last fired, counted up to
                  \* MaxBurst (observation only)
  newestInFlight, \* whether the fetchPokemon call dispatched last still awaits
                  \* its answer; it is then the last of inFlight
                  \* (observation only)
  queryEvent      \* the HomePage or Header step that produced this state
                  \* (observation only)

homeVars ==
  <<pokemon, homeIsLoading, homeError, totalPages, inputValue, timer, inFlight,
    typed, newestInFlight, queryEvent>>

queryVars == <<search, sortByNumber, currentPage, dispatched, homeVars>>

VARIABLES
  detail          \* PokemonDetailPage: whether pokemon is set (useState(null)),
                  \* isLoading (useState(true)), error (useState('')), and pc,
                  \* the position of the fetchPokemon of its effect

detailVars == <<detail>>

vars == <<authVars, queryVars, event, detailVars>>

\* a string is truthy when it is present and not empty
TruthyToken(o) == IsSome(o) /\ TheValue(o) # ""
TruthyText(o) == IsSome(o) /\ TheValue(o) # <<>>

\* isAuthenticated: !!user
isAuthenticated(u) == IsSome(u)

\* the phase the context value {user, isAuthenticated, isLoading} stands for
PhaseOf(loading, u) ==
  IF loading THEN "Booting"
  ELSE IF isAuthenticated(u) THEN "Authenticated" ELSE "Unauthenticated"
Phase == PhaseOf(isLoading, user)

(***************************************************************************)
(* App.tsx: routes and their guards.                                       *)
(***************************************************************************)
LoginPath == "/login"
ListPath == "/pokemon/list"
DetailPath == "/pokemon/:id"
OtherPath == "*"
Paths == {LoginPath, ListPath, DetailPath, OtherPath}

Render(view) == [render |-> view, navigate |-> None]
Navigate(to) == [render |-> "nothing", navigate |-> Some(to)]

\* ProtectedRoute with the two tests in the other order
ProtectedRoute_AuthFirst(loading, authed, children) ==
  IF ~authed THEN Navigate(LoginPath)
  ELSE IF loading THEN Render("loading-screen")
  ELSE Render(children)

\* function ProtectedRoute({ children, redirectTo = '/login' })
ProtectedRoute(loading, authed, children) ==
  IF loading THEN Render("loading-screen")
  ELSE IF ~authed THEN Navigate(LoginPath)
  ELSE Render(children)

\* function PublicRoute({ children, redirectTo = '/pokemon/list' })
PublicRoute(loading, authed, children) ==
  IF loading THEN Render("loading-screen")
  ELSE IF authed THEN Navigate(ListPath)
  ELSE Render(children)

\* <Routes>: the element of the route that matches the location
RouteElement(path, loading, authed) ==
  CASE path = LoginPath -> PublicRoute(loading, authed, "LoginPage")
    [] path = ListPath -> ProtectedRoute(loading, authed, "HomePage")
    [] path = DetailPath -> ProtectedRoute(loading, authed, "PokemonDetailPage")
    [] OTHER -> Navigate(ListPath)

\* the location reached once every <Navigate replace> has been followed
RECURSIVE Settle(_, _, _)
Settle(path, loading, authed) ==
  LET el == RouteElement(path, loading, authed)
  IN IF IsSome(el.navigate) THEN Settle(TheValue(el.navigate), loading, authed)
     ELSE path

\* what is on screen
ViewAt(path, loading, authed) == RouteElement(path, loading, authed).render
View == ViewAt(route, isLoading, isAuthenticated(user))

(***************************************************************************)
(* localStorage.                                                           *)
(***************************************************************************)
getItem(ls, key) == ls[key]
setItem(ls, key, value) == [ls EXCEPT ![key] = Some(value)]
removeItem(ls, key) == [ls EXCEPT ![key] = None]

\* what may be found in the store when a process starts: nothing, what an
\* earlier login() left, or anything else written under the two keys
StoredTokens == {None, Some("")} \cup {Some(t) : t \in Tokens}
StoredUsers ==
  {None, Some(<<>>), Some(NullJson), Some(CorruptJson)}
    \cup {Some(JSONstringify(u)) : u \in Users}
Stores == {[k \in {TOKEN_KEY, USER_KEY} |->
              IF k = TOKEN_KEY THEN t ELSE u] : t \in StoredTokens, u \in StoredUsers}

(***************************************************************************)
(* AuthProvider.                                                           *)
(***************************************************************************)
\* an awaited promise: it resolved to a value or it rejected
Resolved(v) == [threw |-> FALSE, value |-> Some(v)]
Rejected == [threw |-> TRUE, value |-> None]

\* setUser(x) / state left alone
Set(x) == [set |-> TRUE, to |-> x]
Keep == [set |-> FALSE, to |-> None]
Apply(update, old) == IF update.set THEN update.to ELSE old

\* checkAuth taking the profile of the verify response when it carries one
checkAuthResume_ResponseUser(awaited, savedUser, ls) ==
  LET cleared == removeItem(removeItem(ls, TOKEN_KEY), USER_KEY)
  IN IF awaited.threw THEN [localStorage |-> cleared, setUser |-> Keep]
     ELSE IF TheValue(awaited.value).success
          THEN LET parsed == JSONparse(savedUser)
                   data == TheValue(awaited.value).data
               IN IF parsed.threw
                  THEN [localStorage |-> cleared, setUser |-> Keep]
                  ELSE IF IsSome(data)
                       THEN [localStorage |-> ls,
                             setUser |-> Set(Some(TheValue(data).user))]
                       ELSE [localStorage |-> ls, setUser |-> Set(parsed.value)]
          ELSE [localStorage |-> cleared, setUser |-> Keep]

\* checkAuth whose catch block leaves the store alone
checkAuthResume_CatchKeeps(awaited, savedUser, ls) ==
  LET cleared == removeItem(removeItem(ls, TOKEN_KEY), USER_KEY)
  IN IF awaited.threw THEN [localStorage |-> ls, setUser |-> Keep]
     ELSE IF TheValue(awaited.value).success
          THEN LET parsed == JSONparse(savedUser)
               IN IF parsed.threw
                  THEN [localStorage |-> ls, setUser |-> Keep]
                  ELSE [localStorage |-> ls, setUser |-> Set(parsed.value)]
          ELSE [localStorage |-> cleared, setUser |-> Keep]

\* checkAuth removing the token only when the verification fails
checkAuthResume_TokenOnly(awaited, savedUser, ls) ==
  LET cleared == removeItem(ls, TOKEN_KEY)
  IN IF awaited.threw THEN [localStorage |-> cleared, setUser |-> Keep]
     ELSE IF TheValue(awaited.value).success
          THEN LET parsed == JSONparse(savedUser)
               IN IF parsed.threw
                  THEN [localStorage |-> cleared, setUser |-> Keep]
                  ELSE [localStorage |-> ls, setUser |-> Set(parsed.value)]
          ELSE [localStorage |-> cleared, setUser |-> Keep]

\* checkAuth, from the await of authApi.verify(token) to the end of the
\* try/catch
checkAuthResume(awaited, savedUser, ls) ==
  LET cleared == removeItem(removeItem(ls, TOKEN_KEY), USER_KEY)
  IN IF awaited.threw THEN [localStorage |-> cleared, setUser |-> Keep]
     ELSE IF TheValue(awaited.value).success
          THEN LET parsed == JSONparse(savedUser)
               IN IF parsed.threw
                  THEN [localStorage |-> cleared, setUser |-> Keep]
                  ELSE [localStorage |-> ls, setUser |-> Set(parsed.value)]
          ELSE [localStorage |-> cleared, setUser |-> Keep]

LoginResult(success, error) == [success |-> success, error |-> error]

\* login that stores the token but not the user
login_TokenOnly(awaited, ls) ==
  IF awaited.threw
  THEN [localStorage |-> ls, setUser |-> Keep,
        result |-> LoginResult(FALSE, Some("Network error. Please try again."))]
  ELSE LET response == TheValue(awaited.value)
       IN IF response.success /\ IsSome(response.data)
          THEN LET data == TheValue(response.data)
               IN [localStorage |-> setItem(ls, TOKEN_KEY, data.token),
                   setUser |-> Set(Some(data.user)),
                   result |-> LoginResult(TRUE, None)]
          ELSE [localStorage |-> ls, setUser |-> Keep,
                result |-> LoginResult(FALSE,
                                       Some(OrElse(response.error, "Login failed")))]

\* login that ends the current session when the server rejects the call
login_FailureClears(awaited, ls) ==
  IF awaited.threw
  THEN [localStorage |-> ls, setUser |-> Keep,
        result |-> LoginResult(FALSE, Some("Network error. Please try again."))]
  ELSE LET response == TheValue(awaited.value)
       IN IF response.success /\ IsSome(response.data)
          THEN LET data == TheValue(response.data)
               IN [localStorage |->
                     setItem(setItem(ls, TOKEN_KEY, data.token),
                             USER_KEY, JSONstringify(data.user)),
                   setUser |-> Set(Some(data.user)),
                   result |-> LoginResult(TRUE, None)]
          ELSE [localStorage |-> removeItem(removeItem(ls, TOKEN_KEY), USER_KEY),
                setUser |-> Set(None),
                result |-> LoginResult(FALSE,
                                       Some(OrElse(response.error, "Login failed")))]

\* login, from the await of authApi.login(username, password) to its return
login(awaited, ls) ==
  IF awaited.threw
  THEN [localStorage |-> ls, setUser |-> Keep,
        result |-> LoginResult(FALSE, Some("Network error. Please try again."))]
  ELSE LET response == TheValue(awaited.value)
       IN IF response.success /\ IsSome(response.data)
          THEN LET data == TheValue(response.data)
               IN [localStorage |->
                     setItem(setItem(ls, TOKEN_KEY, data.token),
                             USER_KEY, JSONstringify(data.user)),
                   setUser |-> Set(Some(data.user)),
                   result |-> LoginResult(TRUE, None)]
          ELSE [localStorage |-> ls, setUser |-> Keep,
                result |-> LoginResult(FALSE,
                                       Some(OrElse(response.error, "Login failed")))]

\* logout without setUser(null)
logout_KeepsUser(ls) ==
  [localStorage |-> removeItem(removeItem(ls, TOKEN_KEY), USER_KEY),
   setUser |-> Keep]

\* logout that removes the token only
logout_TokenOnly(ls) ==
  [localStorage |-> removeItem(ls, TOKEN_KEY), setUser |-> Set(None)]

\* logout
logout(ls) ==
  [localStorage |-> removeItem(removeItem(ls, TOKEN_KEY), USER_KEY),
   setUser |-> Set(None)]

(***************************************************************************)
(* HomePage: from the committed search text, the sort selection and the    *)
(* page to the catalog request.                                            *)
(***************************************************************************)
ITEMS_PER_PAGE == 21

\* the characters search texts are built from: digits, a letter, whitespace
\* and the comma, which formatSearchQuery also writes
Digits == {"0", "1"}
Letters == {"a"}
Whitespace == {" "}
Commas == {","}
Alphabet == Digits \cup Letters \cup Whitespace \cup Commas
Texts == UNION {[1..n -> Alphabet] : n \in 0..MaxLen}

IsDigit(c) == c \in Digits
IsSpace(c) == c \in Whitespace

\* String.prototype.trim
RECURSIVE trimStart(_)
trimStart(s) ==
  IF s # <<>> /\ IsSpace(Head(s)) THEN trimStart(Tail(s)) ELSE s
RECURSIVE trimEnd(_)
trimEnd(s) ==
  IF s # <<>> /\ IsSpace(s[Len(s)]) THEN trimEnd(SubSeq(s, 1, Len(s) - 1)) ELSE s
trim(s) == trimStart(trimEnd(s))

\* s.split(/\s+/): the pieces between the maximal runs of whitespace; a
\* string without whitespace, the empty string too, is its own single piece
FirstSpace(s) ==
  IF \E i \in 1..Len(s) : IsSpace(s[i])
  THEN CHOOSE i \in 1..Len(s) : IsSpace(s[i]) /\ \A j \in 1..(i - 1) : ~IsSpace(s[j])
  ELSE 0
RECURSIVE split(_)
split(s) ==
  LET i == FirstSpace(s)
  IN IF i = 0 THEN <<s>>
     ELSE <<SubSeq(s, 1, i - 1)>> \o split(trimStart(SubSeq(s, i, Len(s))))

\* terms.join(',')
RECURSIVE join(_)
join(terms) ==
  IF terms = <<>> THEN <<>>
  ELSE IF Len(terms) = 1 THEN terms[1]
       ELSE terms[1] \o <<",">> \o join(Tail(terms))

\* /^\d+$/.test(term)
AllDigits(term) == term # <<>> /\ \A i \in 1..Len(term) : IsDigit(term[i])

\* isNumericSearch with the pattern /\d+/, which is not anchored
isNumericSearch_Unanchored(value) ==
  LET terms == split(trim(value))
  IN \A k \in 1..Len(terms) : \E i \in 1..Len(terms[k]) : IsDigit(terms[k][i])

\* const isNumericSearch = (value) => value.trim().split(/\s+/).every(...)
isNumericSearch(value) ==
  LET terms == split(trim(value))
  IN \A k \in 1..Len(terms) : AllDigits(terms[k])

\* formatSearchQuery without the trim
formatSearchQuery_NoTrim(value) == join(split(value))

\* const formatSearchQuery = (value) => value.trim().split(/\s+/).join(',')
formatSearchQuery(value) == join(split(trim(value)))

\* shouldSearchByNumber that lets auto-detection decide unless Number is
\* selected
shouldSearchByNumber_DetectFirst(byNumber, text) ==
  IF byNumber = Some(TRUE) THEN TRUE
  ELSE IF text # <<>> THEN isNumericSearch(text) ELSE FALSE

\* const shouldSearchByNumber = (): boolean
shouldSearchByNumber(byNumber, text) ==
  IF byNumber = Some(TRUE) THEN TRUE
  ELSE IF byNumber = Some(FALSE) THEN FALSE
  ELSE IF text # <<>> THEN isNumericSearch(text) ELSE FALSE

GetByNumber(ids) == [call |-> "getByNumber", ids |-> Some(ids), params |-> None]
GetList(limit, offset, searchParam, sortBy, sortOrder) ==
  [call |-> "getList", ids |-> None,
   params |-> Some([limit |-> limit, offset |-> offset, search |-> searchParam,
                    sortBy |-> sortBy, sortOrder |-> sortOrder])]

\* fetchPokemon with the offset of the page after the current one
fetchPokemon_OffsetByPage(text, byNumber, page) ==
  LET searchByNumber == shouldSearchByNumber(byNumber, text)
      formattedSearch == IF text # <<>> THEN formatSearchQuery(text) ELSE <<>>
  IN IF formattedSearch # <<>> /\ searchByNumber
     THEN GetByNumber(formattedSearch)
     ELSE GetList(ITEMS_PER_PAGE,
                  page * ITEMS_PER_PAGE,
                  IF formattedSearch # <<>> THEN Some(formattedSearch) ELSE None,
                  IF searchByNumber THEN "number" ELSE "name",
                  "asc")

\* fetchPokemon whose lookup also carries the offset of the page
fetchPokemon_PagedLookup(text, byNumber, page) ==
  LET searchByNumber == shouldSearchByNumber(byNumber, text)
      formattedSearch == IF text # <<>> THEN formatSearchQuery(text) ELSE <<>>
  IN IF formattedSearch # <<>> /\ searchByNumber
     THEN [call |-> "getByNumber", ids |-> Some(formattedSearch),
           params |-> Some([limit |-> ITEMS_PER_PAGE,
                            offset |-> (page - 1) * ITEMS_PER_PAGE,
                            search |-> None, sortBy |-> "number",
                            sortOrder |-> "asc"])]
     ELSE GetList(ITEMS_PER_PAGE,
                  (page - 1) * ITEMS_PER_PAGE,
                  IF formattedSearch # <<>> THEN Some(formattedSearch) ELSE None,
                  IF searchByNumber THEN "number" ELSE "name",
                  "asc")

\* fetchPokemon, up to the catalog call it awaits: the request it issues for
\* the search, sortByNumber and currentPage of the render that created it
fetchPokemon(text, byNumber, page) ==
  LET searchByNumber == shouldSearchByNumber(byNumber, text)
      formattedSearch == IF text # <<>> THEN formatSearchQuery(text) ELSE <<>>
  IN IF formattedSearch # <<>> /\ searchByNumber
     THEN GetByNumber(formattedSearch)
     ELSE GetList(ITEMS_PER_PAGE,
                  (page - 1) * ITEMS_PER_PAGE,
                  IF formattedSearch # <<>> THEN Some(formattedSearch) ELSE None,
                  IF searchByNumber THEN "number" ELSE "name",
                  "asc")

\* an interceptor that keeps sending the token of the session the page was
\* loaded with
requestInterceptor_FirstToken(ls) == Some(<<"Bearer", "t1">>)

\* api.interceptors.request: the Authorization header a request leaves with,
\* from the token getAuthToken() reads in the store at that moment
requestInterceptor(ls) ==
  LET token == getItem(ls, TOKEN_KEY)
  IN IF TruthyToken(token) THEN Some(<<"Bearer", TheValue(token)>>) ELSE None

\* a request of authApi as it leaves: api.post with the header of the
\* interceptor
\* one fetchPokemon call awaiting the catalog: its request and the search,
\* sortByNumber and currentPage of the render whose fetchPokemon it is
FetchCall(text, byNumber, page) ==
  [request |-> fetchPokemon(text, byNumber, page),
   search |-> text, sortByNumber |-> byNumber, currentPage |-> page]

\* fetchPokemon up to its await, once per call in calls: setIsLoading(true),
\* setError('') and the request leaves
Dispatch(calls) ==
  /\ dispatched' = [k \in 1..Len(calls) |->
                     calls[k] @@ [authorization |-> requestInterceptor(localStorage)]]
  /\ inFlight' = inFlight \o [k \in 1..Len(calls) |-> [call |-> calls[k].request.call]]
  /\ Len(inFlight') <= MaxInFlight
  /\ homeIsLoading' = IF calls # <<>> THEN TRUE ELSE homeIsLoading
  /\ homeError' = IF calls # <<>> THEN "" ELSE homeError
  /\ newestInFlight' = IF calls # <<>> THEN TRUE ELSE newestInFlight

\* the quotient rounded down instead
MathCeil_Floor(n, d) == n \div d

\* Math.ceil(n / d) for a total n >= 0
MathCeil(n, d) == IF n % d = 0 THEN n \div d ELSE (n \div d) + 1

\* fetchPokemon with a failure branch that also goes back to the first page
fetchPokemonResume_ResetsPage(call, response) ==
  LET ok == response.success /\ IsSome(response.data)
      shown ==
        [setPokemon |-> Set(TheValue(response.data).results),
         setTotalPages |->
           Set(MathCeil(TheValue(response.data).pagination.total, ITEMS_PER_PAGE)),
         setError |-> Keep, setCurrentPage |-> Keep]
  IN IF call = "getByNumber"
     THEN IF ok THEN shown
          ELSE [setPokemon |-> Set(Pokemons(0)), setTotalPages |-> Set(1),
                setError |-> Keep, setCurrentPage |-> Set(1)]
     ELSE IF ok THEN shown
          ELSE [setPokemon |-> Keep, setTotalPages |-> Keep,
                setError |-> Set(OrElse(response.error, "Failed to load Pokémon")),
                setCurrentPage |-> Set(1)]

\* fetchPokemon from the answer of the catalog call on: the state setters it
\* calls (it never calls setCurrentPage); setIsLoading(false) ends both
\* branches
fetchPokemonResume(call, response) ==
  LET ok == response.success /\ IsSome(response.data)
      shown ==
        [setPokemon |-> Set(TheValue(response.data).results),
         setTotalPages |->
           Set(MathCeil(TheValue(response.data).pagination.total, ITEMS_PER_PAGE)),
         setError |-> Keep, setCurrentPage |-> Keep]
  IN IF call = "getByNumber"
     THEN IF ok THEN shown
          ELSE [setPokemon |-> Set(Pokemons(0)), setTotalPages |-> Set(1),
                setError |-> Keep, setCurrentPage |-> Keep]
     ELSE IF ok THEN shown
          ELSE [setPokemon |-> Keep, setTotalPages |-> Keep,
                setError |-> Set(OrElse(response.error, "Failed to load Pokémon")),
                setCurrentPage |-> Keep]

\* the effects of HomePage without the one that calls setCurrentPage(1)
HomeEffects_NoReset(oldSearch, oldSort, oldPage, newSearch, newSort, newPage) ==
  LET changed == <<newSearch, newSort, newPage>> # <<oldSearch, oldSort, oldPage>>
  IN [calls |-> IF changed THEN <<FetchCall(newSearch, newSort, newPage)>> ELSE <<>>,
      currentPage |-> newPage]

\* the two effects of HomePage after a render whose search, sortByNumber or
\* currentPage differ from those of the render before it.  The fetch effect
\* (deps [fetchPokemon]) comes first and calls fetchPokemon with the values of
\* that render; the effect with deps [search, sortByNumber] then calls
\* setCurrentPage(1), and when that changes currentPage the next render runs
\* the fetch effect again.
HomeEffects(oldSearch, oldSort, oldPage, newSearch, newSort, newPage) ==
  LET filterChanged == <<newSearch, newSort>> # <<oldSearch, oldSort>>
      first == IF filterChanged \/ newPage # oldPage
               THEN <<FetchCall(newSearch, newSort, newPage)>> ELSE <<>>
      again == IF filterChanged /\ newPage # 1
               THEN <<FetchCall(newSearch, newSort, 1)>> ELSE <<>>
  IN [calls |-> first \o again,
      currentPage |-> IF filterChanged THEN 1 ELSE newPage]

\* Pagination.getVisiblePages: the page buttons (the '...' entries left out)
getVisiblePages(page, pages) ==
  IF pages <= 5 THEN 1..pages
  ELSE LET start == IF page - 1 > 2 THEN page - 1 ELSE 2
           end == IF pages - 1 < page + 1 THEN pages - 1 ELSE page + 1
       IN {1} \cup start..end \cup {pages}

\* the pages the controls of Pagination can pass to onPageChange: the
\* previous button (disabled on page 1), the next button (disabled on the
\* last page) and the page buttons
PaginationEmits(page, pages) ==
  (IF page = 1 THEN {} ELSE {page - 1})
    \cup (IF page = pages THEN {} ELSE {page + 1})
    \cup getVisiblePages(page, pages)

(***************************************************************************)
(* Session: the operations of AuthProvider as the application drives them. *)
(* login() is called by LoginPage.handleSubmit only, logout() by the       *)
(* Header of HomePage only.                                                *)
(***************************************************************************)
Snapshot(ls, u, loading, wrote, at) ==
  [localStorage |-> ls, user |-> u, isLoading |-> loading, loginWrote |-> wrote,
   route |-> at]
Before == Some(Snapshot(localStorage, user, isLoading, loginWrote, route))
AuthRequest(call, ls) == [call |-> call, authorization |-> requestInterceptor(ls)]

\* op: the operation; http: what the remote call it awaited produced;
\* result: what it returned to its caller; before: the state it started
\* from; sent: the requests of authApi it sent
EventSent(op, http, result, before, sent) ==
  [op |-> op, http |-> http, result |-> result, before |-> before, sent |-> sent]
Event(op, http, result, before) == EventSent(op, http, result, before, <<>>)

\* LoginPage: useState('') for error, useState(false) for isLoading, and
\* touched, which handleSubmit sets for both fields at once
FreshForm == [isLoading |-> FALSE, error |-> "", touched |-> FALSE]
Unmounted(pending) == [i \in 1..Len(pending) |-> [pending[i] EXCEPT !.live = FALSE]]
\* a login() call awaiting authApi.login is told from the others by id, the
\* least number no pending call has
CallIds == 1..MaxLogins
PendingIds(pending) == {pending[i].id : i \in 1..Len(pending)}
FreeId(pending) == CHOOSE n \in CallIds \ PendingIds(pending) :
                     \A m \in CallIds \ PendingIds(pending) : n <= m
Without(seq, i) == SubSeq(seq, 1, i - 1) \o SubSeq(seq, i + 1, Len(seq))

\* the state of a process that has just rendered for the first time at url
Started(url) ==
  /\ user = None
  /\ isLoading = TRUE
  /\ checkAuth = [pc |-> "start", token |-> None, savedUser |-> None]
  /\ logins = <<>>
  /\ loginForm = FreshForm
  /\ route = Settle(url, TRUE, FALSE)

\* op: the step; calls: how many fetchPokemon calls it dispatched; answered:
\* the branch of the call whose answer it handled, whether the answer was a
\* success with data, the pagination.total of such an answer, whether that
\* call was the one dispatched last and whether the answer changed pokemon,
\* totalPages or error; before: search, sortByNumber, currentPage, inputValue and typed
\* when the step began
QueryEvent(op, calls, answered, before) ==
  [op |-> op, calls |-> calls, answered |-> answered, before |-> before]
QueryBefore ==
  Some([search |-> search, sortByNumber |-> sortByNumber,
        currentPage |-> currentPage, inputValue |-> inputValue, typed |-> typed])

\* HomePage and its Header as their first render leaves them, for the search
\* text the FilterProvider holds
HomeFresh(text) ==
  /\ pokemon = Pokemons(0)
  /\ homeIsLoading = TRUE
  /\ homeError = ""
  /\ totalPages = 1
  /\ inputValue = text
  /\ timer = None
  /\ inFlight = <<>>
  /\ typed = 0
  /\ newestInFlight = FALSE
  /\ queryEvent = QueryEvent("start", 0, None, None)

\* PokemonDetailPage as its first render leaves it
DetailFresh == [pokemon |-> FALSE, isLoading |-> TRUE, error |-> "", pc |-> "start"]
DetailIdle == detail = DetailFresh

QueryIdle ==
  /\ search = <<>>
  /\ sortByNumber = None
  /\ currentPage = 1
  /\ dispatched = <<>>
  /\ HomeFresh(<<>>)

InitAuth ==
  /\ localStorage \in Stores
  /\ \E url \in Paths : Started(url)
  /\ loginWrote = None
  /\ event = Event("start", None, None, None)
  /\ QueryIdle
  /\ DetailIdle

\* useEffect(() => { checkAuth() }, []): checkAuth up to its first await, or
\* to its end when the store holds no token or no user
CheckAuthStart ==
  /\ checkAuth.pc = "start"
  /\ LET token == getItem(localStorage, TOKEN_KEY)
         savedUser == getItem(localStorage, USER_KEY)
     IN IF TruthyToken(token) /\ TruthyText(savedUser)
        THEN /\ checkAuth' = [pc |-> "verify", token |-> token, savedUser |-> savedUser]
             /\ UNCHANGED <<isLoading, route>>
        ELSE /\ checkAuth' = [checkAuth EXCEPT !.pc = "done"]
             /\ isLoading' = FALSE
             /\ route' = Settle(route, FALSE, isAuthenticated(user))
  /\ event' = EventSent("checkAuth.start", None, None, Before,
                        IF /\ TruthyToken(getItem(localStorage, TOKEN_KEY))
                           /\ TruthyText(getItem(localStorage, USER_KEY))
                        THEN <<AuthRequest("verify", localStorage)>> ELSE <<>>)
  /\ UNCHANGED <<localStorage, user, logins, loginForm, loginWrote, queryVars, detailVars>>

\* checkAuth that reaches setIsLoading(false) only when the verification
\* succeeded
CheckAuthReturn_StaysLoading(http) ==
  /\ checkAuth.pc = "verify"
  /\ LET awaited == Resolved(authApiVerify(http))
         r == checkAuthResume(awaited, TheValue(checkAuth.savedUser), localStorage)
         loading == IF TheValue(awaited.value).success THEN FALSE ELSE isLoading
     IN /\ localStorage' = r.localStorage
        /\ user' = Apply(r.setUser, user)
        /\ loginWrote' = IF r.localStorage = localStorage THEN loginWrote ELSE None
        /\ event' = Event("checkAuth.return", Some(http), None, Before)
        /\ isLoading' = loading
        /\ route' = Settle(route, loading, isAuthenticated(user'))
  /\ checkAuth' = [checkAuth EXCEPT !.pc = "done"]
  /\ UNCHANGED <<logins, loginForm, queryVars, detailVars>>

\* authApi.verify answers: the rest of checkAuth, then setIsLoading(false)
CheckAuthReturn(http) ==
  /\ checkAuth.pc = "verify"
  /\ LET awaited == Resolved(authApiVerify(http))
         r == checkAuthResume(awaited, TheValue(checkAuth.savedUser), localStorage)
     IN /\ localStorage' = r.localStorage
        /\ user' = Apply(r.setUser, user)
        /\ loginWrote' = IF r.localStorage = localStorage THEN loginWrote ELSE None
        /\ event' = Event("checkAuth.return", Some(http), None, Before)
  /\ isLoading' = FALSE
  /\ checkAuth' = [checkAuth EXCEPT !.pc = "done"]
  /\ route' = Settle(route, FALSE, isAuthenticated(user'))
  /\ UNCHANGED <<logins, loginForm, queryVars, detailVars>>

\* the texts the two fields of the form are submitted with
FormUsernames ==
  {<<>>, <<" ", " ", " ">>, <<"a", "b">>, <<"a", "b", " ">>, <<"a", "b", "c">>}
FormPasswords ==
  {<<>>, <<"a", "b", "c">>, <<" ", " ", " ", " ">>, <<"a", "b", "c", "d">>}
\* a form filled in so that it passes validation
FilledForm == {[username |-> <<"a", "b", "c">>, password |-> <<"a", "b", "c", "d">>]}

\* validateUsername without the length check
validateUsername_RequiredOnly(value) ==
  IF trim(value) = <<>> THEN "Username is required" ELSE ""

\* const validateUsername = (value: string)
validateUsername(value) ==
  IF trim(value) = <<>> THEN "Username is required"
  ELSE IF Len(value) < 3 THEN "Min 3 characters"
  ELSE ""

\* const validatePassword = (value: string)
validatePassword(value) ==
  IF value = <<>> THEN "Password is required"
  ELSE IF Len(value) < 4 THEN "Min 4 characters"
  ELSE ""

\* const isFormValid = !validateUsername(username) && !validatePassword(password)
isFormValid(username, password) ==
  validateUsername(username) = "" /\ validatePassword(password) = ""

\* api.post('/auth/login', { username, password }) as it leaves
LoginRequest(username, password, ls) ==
  AuthRequest("login", ls) @@ [body |-> [username |-> username, password |-> password]]

\* LoginPage.handleSubmit up to `await login(username, password)`, for the
\* texts the fields hold: setTouched, then nothing more if the form is not
\* valid; the submit button and both inputs are disabled while the form's
\* isLoading is set
LoginSubmit(username, password) ==
  /\ View = "LoginPage"
  /\ ~loginForm.isLoading
  /\ IF isFormValid(username, password)
     THEN /\ Len(logins) < MaxLogins
          /\ loginForm' = [isLoading |-> TRUE, error |-> "", touched |-> TRUE]
          /\ logins' = Append(logins, [live |-> TRUE, id |-> FreeId(logins)])
          /\ event' = EventSent("login.call", None, None, Before,
                                <<LoginRequest(username, password, localStorage)>>)
     ELSE /\ loginForm' = [loginForm EXCEPT !.touched = TRUE]
          /\ logins' = logins
          /\ event' = Event("login.invalid", None, None, Before)
  /\ UNCHANGED <<localStorage, user, isLoading, checkAuth, route, loginWrote, queryVars, detailVars>>

\* authApi.login answers call i: the rest of login(), then the rest of the
\* handleSubmit that awaited it (navigate on success, setError otherwise,
\* setIsLoading(false)); state setters of an unmounted LoginPage do nothing
LoginReturn(i, http) ==
  /\ i \in 1..Len(logins)
  /\ LET awaited == Resolved(authApiLogin(http))
         r == login(awaited, localStorage)
         newUser == Apply(r.setUser, user)
         target == IF r.result.success THEN ListPath ELSE route
         settled == Settle(target, isLoading, isAuthenticated(newUser))
         kept == /\ View = "LoginPage"
                 /\ target = LoginPath
                 /\ ViewAt(settled, isLoading, isAuthenticated(newUser)) = "LoginPage"
     IN /\ localStorage' = r.localStorage
        /\ user' = newUser
        /\ route' = settled
        /\ loginForm' =
             IF ~kept THEN FreshForm
             ELSE IF logins[i].live
                  THEN [isLoading |-> FALSE,
                        error |-> OrElse(r.result.error, "Login failed"),
                        touched |-> TRUE]
                  ELSE loginForm
        /\ logins' = IF kept THEN Without(logins, i) ELSE Unmounted(Without(logins, i))
        /\ loginWrote' =
             IF r.result.success THEN awaited.value[1].data
             ELSE loginWrote
        /\ event' = Event("login.return", Some(http), Some(r.result), Before)
                     @@ [live |-> logins[i].live]
  /\ UNCHANGED <<isLoading, checkAuth, queryVars, detailVars>>

\* a logout after which the mount effect runs again
Logout_ChecksAgain ==
  /\ View = "HomePage"
  /\ LET r == logout(localStorage)
     IN /\ localStorage' = r.localStorage
        /\ user' = Apply(r.setUser, user)
        /\ route' = Settle(route, TRUE, isAuthenticated(Apply(r.setUser, user)))
        /\ loginWrote' = IF r.localStorage = localStorage THEN loginWrote ELSE None
  /\ isLoading' = TRUE
  /\ checkAuth' = [pc |-> "start", token |-> None, savedUser |-> None]
  /\ loginForm' = FreshForm
  /\ event' = Event("logout", None, None, Before)
  /\ UNCHANGED <<logins, queryVars, detailVars>>

\* the logout button of the Header, which HomePage renders
Logout ==
  /\ View = "HomePage"
  /\ LET r == logout(localStorage)
     IN /\ localStorage' = r.localStorage
        /\ user' = Apply(r.setUser, user)
        /\ route' = Settle(route, isLoading, isAuthenticated(Apply(r.setUser, user)))
        /\ loginWrote' = IF r.localStorage = localStorage THEN loginWrote ELSE None
  /\ loginForm' = FreshForm
  /\ event' = Event("logout", None, None, Before)
  /\ UNCHANGED <<isLoading, checkAuth, logins, queryVars, detailVars>>

\* a link or the browser's history moves the location to another path; a
\* LoginPage that was on screen is unmounted (and a new one mounted if the
\* guards lead back to /login)
UserNavigate(path) ==
  /\ checkAuth.pc # "start"
  /\ path # route
  /\ route' = Settle(path, isLoading, isAuthenticated(user))
  /\ loginForm' = FreshForm
  /\ logins' = IF View = "LoginPage" THEN Unmounted(logins) ELSE logins
  /\ event' = Event("navigate", None, None, Before)
  /\ UNCHANGED <<localStorage, user, isLoading, checkAuth, loginWrote, queryVars, detailVars>>

\* the page is loaded again at url: a new process over the same store
Reload(url) ==
  /\ checkAuth.pc # "start"
  /\ user' = None
  /\ isLoading' = TRUE
  /\ checkAuth' = [pc |-> "start", token |-> None, savedUser |-> None]
  /\ logins' = <<>>
  /\ loginForm' = FreshForm
  /\ route' = Settle(url, TRUE, FALSE)
  /\ event' = Event("start", None, None, None)
  /\ UNCHANGED <<localStorage, loginWrote, queryVars, detailVars>>

NextAuth ==
  \/ CheckAuthStart
  \/ \E http \in VerifyOutcomes : CheckAuthReturn(http)
  \/ \E form \in FilledForm : LoginSubmit(form.username, form.password)
  \/ \E i \in 1..MaxLogins, http \in LoginOutcomes : LoginReturn(i, http)
  \/ Logout
  \/ \E path \in Paths : UserNavigate(path)
  \/ \E url \in Paths : Reload(url)

SpecAuth == InitAuth /\ [][NextAuth]_vars

\* checkAuth in a browser whose localStorage cannot be read: getItem throws.
\* The two reads are outside the try block, so checkAuth ends there, its
\* promise rejected and unhandled, and setIsLoading(false) is not reached.
CheckAuthThrows ==
  /\ checkAuth.pc = "start"
  /\ checkAuth' = [checkAuth EXCEPT !.pc = "threw"]
  /\ event' = Event("checkAuth.threw", None, None, Before)
  /\ UNCHANGED <<localStorage, user, isLoading, route, logins, loginForm,
                 loginWrote, queryVars, detailVars>>

\* the session where the store may be unavailable when a process starts
NextBoot ==
  \/ CheckAuthThrows
  \/ NextAuth

SpecBoot == InitAuth /\ [][NextBoot]_vars

\* authApi.login answers the call with this id
LoginReturnOf(id) ==
  \E i \in 1..MaxLogins, http \in LoginOutcomes :
    /\ i <= Len(logins)
    /\ logins[i].id = id
    /\ LoginReturn(i, http)

\* one process from its first render on, never loaded again
NextLifetime ==
  \/ CheckAuthStart
  \/ \E http \in VerifyOutcomes : CheckAuthReturn(http)
  \/ \E form \in FilledForm : LoginSubmit(form.username, form.password)
  \/ \E id \in CallIds : LoginReturnOf(id)
  \/ Logout
  \/ \E path \in Paths : UserNavigate(path)

\* The mount effect runs once the first render is done, and every call of
\* authApi that was made is answered or fails in the end.
SpecLifetime ==
  /\ InitAuth
  /\ [][NextLifetime]_vars
  /\ WF_vars(CheckAuthStart)
  /\ WF_vars(\E http \in VerifyOutcomes : CheckAuthReturn(http))
  /\ \A id \in CallIds : WF_vars(LoginReturnOf(id))

(***************************************************************************)
(* Session properties.                                                     *)
(***************************************************************************)
Was == TheValue(event.before)
\* the session part of a snapshot: both keys, the profile and the phase
SessionOf(snap) ==
  <<snap.localStorage, snap.user, PhaseOf(snap.isLoading, snap.user)>>
SessionNow == <<localStorage, user, Phase>>
HttpOf(e) == TheValue(e.http)
KeysAbsent(ls) == ls[TOKEN_KEY] = None /\ ls[USER_KEY] = None
\* the remote call answered 2xx with success and, for login, the data
RemoteSucceeded(http) ==
  http.kind = "ok" /\ TheValue(http.body).success
RemoteLoginSucceeded(http) ==
  RemoteSucceeded(http) /\ IsSome(TheValue(http.body).data)
ReturnedBy(http) == TheValue(TheValue(http.body).data)

\* C1 as stated: in every reachable state the profile is present iff
\* phase = Authenticated, and a credential is held in PersistentStore iff
\* phase = Authenticated.
C1_ProfileAndCredentialIffAuthenticated ==
  /\ IsSome(user) <=> Phase = "Authenticated"
  /\ IsSome(localStorage[TOKEN_KEY]) <=> Phase = "Authenticated"

\* C1 amended: in every reachable state the profile is present iff
\* phase = Authenticated, and phase = Authenticated implies that
\* PersistentStore holds a credential and a profile; once phase has left
\* Booting, a credential that login stored is held only while
\* phase = Authenticated.  (While Booting the persisted credential is in the
\* store, awaiting verification.)
C1_SessionMatchesStoreAfterBoot ==
  /\ IsSome(user) <=> Phase = "Authenticated"
  /\ Phase = "Authenticated" =>
       /\ TruthyToken(localStorage[TOKEN_KEY])
       /\ TruthyText(localStorage[USER_KEY])
  /\ (Phase # "Booting" /\ IsSome(loginWrote)) => Phase = "Authenticated"

\* C1 witness: a login response arrives after a logout, while no login form
\* awaits it, and the session it produces is backed by the store
C1_Witness ==
  /\ event.op = "login.return"
  /\ Was.user = None /\ KeysAbsent(Was.localStorage)
  /\ Was.loginWrote = None
  /\ Phase = "Authenticated"
  /\ IsSome(loginWrote)
  /\ localStorage[TOKEN_KEY] = Some(TheValue(loginWrote).token)

\* C2: when the store holds a credential/profile pair that a successful login
\* wrote and the verify call of a later process start succeeds, bootstrap ends
\* with phase = Authenticated and the profile login stored, whatever profile
\* the verify response carries.
C2_BootstrapRestoresStoredProfile ==
  (/\ event.op = "checkAuth.return"
   /\ RemoteSucceeded(HttpOf(event))
   /\ IsSome(Was.loginWrote))
  => /\ Phase = "Authenticated"
     /\ user = Some(TheValue(Was.loginWrote).user)
     /\ localStorage = Was.localStorage

\* C2 witness: the verify response carries another profile than the stored one
C2_Witness ==
  /\ event.op = "checkAuth.return"
  /\ RemoteSucceeded(HttpOf(event))
  /\ IsSome(Was.loginWrote)
  /\ IsSome(TheValue(HttpOf(event).body).data)
  /\ ReturnedBy(HttpOf(event)).user # TheValue(Was.loginWrote).user
  /\ user = Some(TheValue(Was.loginWrote).user)

\* C3: when bootstrap has called verify (the store held a credential and a
\* profile) and verify is rejected or fails, or the persisted profile cannot
\* be parsed, then after bootstrap both keys are absent and
\* phase = Unauthenticated.
C3_FailedVerificationClearsStore ==
  (/\ event.op = "checkAuth.return"
   /\ \/ ~RemoteSucceeded(HttpOf(event))
      \/ JSONparse(TheValue(Was.localStorage[USER_KEY])).threw)
  => /\ KeysAbsent(localStorage)
     /\ Phase = "Unauthenticated"

\* C3 witness: verify succeeded but the persisted profile is not JSON
C3_Witness ==
  /\ event.op = "checkAuth.return"
  /\ RemoteSucceeded(HttpOf(event))
  /\ Was.localStorage[USER_KEY] = Some(CorruptJson)
  /\ TruthyToken(Was.localStorage[TOKEN_KEY])
  /\ KeysAbsent(localStorage)
  /\ Phase = "Unauthenticated"

\* C4: login returns success exactly when RemoteAuthority.login succeeded,
\* and then, in the state login returns in, both keys hold the returned
\* credential and profile and phase = Authenticated.
C4_LoginSuccessStoresSession ==
  event.op = "login.return" =>
    /\ TheValue(event.result).success <=> RemoteLoginSucceeded(HttpOf(event))
    /\ TheValue(event.result).success =>
         LET data == ReturnedBy(HttpOf(event))
         IN /\ localStorage[TOKEN_KEY] = Some(data.token)
            /\ IsSome(localStorage[USER_KEY])
            /\ JSONparse(TheValue(localStorage[USER_KEY]))
                 = [threw |-> FALSE, value |-> Some(data.user)]
            /\ user = Some(data.user)
            /\ Phase = "Authenticated"

\* C4 witness: a successful login replaces the session of an earlier one
C4_Witness ==
  /\ event.op = "login.return"
  /\ TheValue(event.result).success
  /\ TruthyToken(Was.localStorage[TOKEN_KEY])
  /\ Was.localStorage[TOKEN_KEY] # localStorage[TOKEN_KEY]
  /\ Was.user # user
  /\ Phase = "Authenticated"

\* C5: a login that fails (server rejection or transport error) leaves both
\* PersistentStore keys, the profile and the phase as they were: neither the
\* call nor its failing return changes them.
C5_FailedLoginChangesNothing ==
  /\ event.op = "login.call" => SessionNow = SessionOf(Was)
  /\ (event.op = "login.return" /\ ~TheValue(event.result).success)
       => SessionNow = SessionOf(Was)

\* C5 witness: a transport error answers a login while another login has
\* already produced a session
C5_Witness ==
  /\ event.op = "login.return"
  /\ ~TheValue(event.result).success
  /\ HttpOf(event) = HttpNetwork
  /\ Phase = "Authenticated"
  /\ TruthyToken(localStorage[TOKEN_KEY])

\* C6: in the state logout() returns in, both PersistentStore keys are absent
\* and phase = Unauthenticated.
C6_LogoutClearsSession ==
  event.op = "logout" =>
    /\ KeysAbsent(localStorage)
    /\ Phase = "Unauthenticated"

\* C6 witness: logout of a stored session while a login call is pending
C6_Witness ==
  /\ event.op = "logout"
  /\ TruthyToken(Was.localStorage[TOKEN_KEY])
  /\ TruthyText(Was.localStorage[USER_KEY])
  /\ IsSome(Was.user)
  /\ logins # <<>>
  /\ KeysAbsent(localStorage)

\* C7: the protected views (list, detail) are rendered only when
\* phase = Authenticated, the login view only when phase = Unauthenticated,
\* and while phase = Booting each guarded route renders the loading screen:
\* neither kind of view, and no redirect.
GuardedPaths == {LoginPath, ListPath, DetailPath}
ProtectedViews == {"HomePage", "PokemonDetailPage"}
C7_GuardsFollowPhase ==
  /\ \A path \in GuardedPaths :
       LET el == RouteElement(path, isLoading, isAuthenticated(user))
       IN /\ el.render \in ProtectedViews => Phase = "Authenticated"
          /\ el.render = "LoginPage" => Phase = "Unauthenticated"
          /\ Phase = "Booting" => el = Render("loading-screen")
  /\ View \in ProtectedViews => Phase = "Authenticated"
  /\ View = "LoginPage" => Phase = "Unauthenticated"
  /\ (Phase = "Booting" /\ event.op = "checkAuth.start") => route = Was.route

\* C7 witness: a stored session is being verified at the list route
C7_Witness ==
  /\ Phase = "Booting"
  /\ checkAuth.pc = "verify"
  /\ route = ListPath
  /\ View = "loading-screen"

(***************************************************************************)
(* Query resolution: HomePage on screen for a signed-in operator, with any *)
(* committed search text, sort selection and page.                         *)
(***************************************************************************)
SortModes == {None, Some(TRUE), Some(FALSE)}

SignedIn ==
  /\ localStorage = [k \in {TOKEN_KEY, USER_KEY} |->
                       IF k = TOKEN_KEY THEN Some("t1")
                       ELSE Some(JSONstringify(User("ash")))]
  /\ user = Some(User("ash"))
  /\ isLoading = FALSE
  /\ checkAuth = [pc |-> "done", token |-> None, savedUser |-> None]
  /\ logins = <<>>
  /\ loginForm = FreshForm
  /\ route = ListPath
  /\ loginWrote = None

InitResolve ==
  /\ SignedIn
  /\ event = Event("start", None, None, None)
  /\ search \in Texts
  /\ sortByNumber \in SortModes
  /\ currentPage \in 1..MaxPage
  /\ dispatched = <<>>
  /\ HomeFresh(search)
  /\ DetailIdle

\* useEffect(() => { fetchPokemon() }, [fetchPokemon]): the call leaves for
\* the catalog with the values of the render
Fetch ==
  /\ View = "HomePage"
  /\ dispatched = <<>>
  /\ Dispatch(<<FetchCall(search, sortByNumber, currentPage)>>)
  /\ UNCHANGED <<authVars, detailVars, event, search, sortByNumber, currentPage, pokemon,
                 totalPages, inputValue, timer, typed, queryEvent>>

NextResolve == Fetch

SpecResolve == InitResolve /\ [][NextResolve]_vars

(***************************************************************************)
(* Query resolution properties.  The search text is described here by its  *)
(* characters, not by the pieces the code splits it into.                  *)
(***************************************************************************)
\* the whitespace-separated tokens of a text, scanned left to right
RECURSIVE TokensFrom(_, _, _)
TokensFrom(text, i, token) ==
  LET done == IF token = <<>> THEN <<>> ELSE <<token>>
  IN IF i > Len(text) THEN done
     ELSE IF IsSpace(text[i]) THEN done \o TokensFrom(text, i + 1, <<>>)
     ELSE TokensFrom(text, i + 1, Append(token, text[i]))
TokensOf(text) == TokensFrom(text, 1, <<>>)
OnlyDigits(token) == \A i \in 1..Len(token) : IsDigit(token[i])
EveryTokenNumeric(text) ==
  \A k \in 1..Len(TokensOf(text)) : OnlyDigits(TokensOf(text)[k])
\* the tokens joined by single commas
RECURSIVE CommaJoined(_, _)
CommaJoined(tokens, k) ==
  IF k > Len(tokens) THEN <<>>
  ELSE (IF k > 1 THEN <<",">> ELSE <<>>) \o tokens[k] \o CommaJoined(tokens, k + 1)
Normalized(text) == CommaJoined(TokensOf(text), 1)

\* the mode a dispatched request shows: the identifier lookup, or a list
\* call ordered by number, is identifier search
Sent == dispatched[1]
IdentifierMode(request) ==
  \/ request.call = "getByNumber"
  \/ request.call = "getList" /\ TheValue(request.params).sortBy = "number"
\* the mode of 4.2: the explicit selection, else identifier search exactly
\* for a text of one or more tokens that are all digits
ResolvedIdentifier(byNumber, text) ==
  IF IsSome(byNumber) THEN TheValue(byNumber)
  ELSE TokensOf(text) # <<>> /\ EveryTokenNumeric(text)

\* C8 as stated: with sortMode = Unset and a non-empty search text, the
\* resolved mode is identifier search iff every whitespace-separated token
\* consists only of digits.
C8_NumericIffEveryTokenDigits ==
  (dispatched # <<>> /\ Sent.sortByNumber = None /\ Sent.search # <<>>)
  => (IdentifierMode(Sent.request) <=> EveryTokenNumeric(Sent.search))

\* C8 amended: with sortMode = Unset and a non-empty search text, the
\* resolved mode is identifier search iff the text has at least one token and
\* every token consists only of digits; a text of whitespace only, like a
\* text with a token that contains a non-digit, is a name search.
C8_NumericIffTokensAllDigits ==
  (dispatched # <<>> /\ Sent.sortByNumber = None /\ Sent.search # <<>>)
  => (IdentifierMode(Sent.request)
        <=> (TokensOf(Sent.search) # <<>> /\ EveryTokenNumeric(Sent.search)))

\* C8 witness: one token with a digit and a non-digit makes the query, whose
\* other token is numeric, a name search
C8_Witness ==
  /\ dispatched # <<>>
  /\ Sent.sortByNumber = None
  /\ Sent.search = <<"1", " ", "a">>
  /\ ~IdentifierMode(Sent.request)
  /\ Sent.request.call = "getList"

\* C9 as stated: an explicitly selected sort mode overrides auto-detection:
\* with ByName every text, numeric ones too, issues the list call with the
\* normalized text and sortBy = name; with ByIdentifier every non-empty
\* non-numeric text issues the identifier lookup.
C9_ExplicitSortOverrides ==
  dispatched # <<>> =>
    /\ Sent.sortByNumber = Some(FALSE) =>
         /\ Sent.request.call = "getList"
         /\ TheValue(Sent.request.params).sortBy = "name"
         /\ Sent.search # <<>> /\ EveryTokenNumeric(Sent.search) /\ TokensOf(Sent.search) # <<>>
              => TheValue(Sent.request.params).search = Some(Normalized(Sent.search))
    /\ (Sent.sortByNumber = Some(TRUE) /\ Sent.search # <<>>
          /\ ~(TokensOf(Sent.search) # <<>> /\ EveryTokenNumeric(Sent.search)))
         => Sent.request.call = "getByNumber"

\* C9 amended: as stated, except that with ByIdentifier it is every text with
\* at least one token (numeric or not) that issues the identifier lookup, with
\* its normalized terms; a text of whitespace only issues the list call with
\* sortBy = number.
C9_ExplicitSortOverridesTokens ==
  dispatched # <<>> =>
    /\ Sent.sortByNumber = Some(FALSE) =>
         /\ Sent.request.call = "getList"
         /\ TheValue(Sent.request.params).sortBy = "name"
         /\ TokensOf(Sent.search) # <<>>
              => TheValue(Sent.request.params).search = Some(Normalized(Sent.search))
    /\ Sent.sortByNumber = Some(TRUE) =>
         /\ IdentifierMode(Sent.request)
         /\ TokensOf(Sent.search) # <<>>
              => Sent.request = GetByNumber(Normalized(Sent.search))
         /\ TokensOf(Sent.search) = <<>> => Sent.request.call = "getList"

\* C9 witness: ByIdentifier with a text that is no number issues the lookup
C9_Witness ==
  /\ dispatched # <<>>
  /\ Sent.sortByNumber = Some(TRUE)
  /\ Sent.search = <<"a", "a">>
  /\ Sent.request = GetByNumber(<<"a", "a">>)

\* C10: the request dispatched for a committed search text, sortMode and page
\* is the identifier lookup with the normalized comma-joined terms iff the
\* resolved mode is identifier search and the normalized text is non-empty;
\* otherwise it is the list call with limit = 21, offset = (page-1)*21,
\* search = the normalized text (absent when empty), sortBy = number iff the
\* resolved mode is identifier search, and sortOrder = asc.
ExpectedRequest(text, byNumber, page) ==
  IF ResolvedIdentifier(byNumber, text) /\ Normalized(text) # <<>>
  THEN [call |-> "getByNumber", ids |-> Some(Normalized(text)), params |-> None]
  ELSE [call |-> "getList", ids |-> None,
        params |-> Some([limit |-> 21,
                         offset |-> (page - 1) * 21,
                         search |-> IF Normalized(text) = <<>> THEN None
                                    ELSE Some(Normalized(text)),
                         sortBy |-> IF ResolvedIdentifier(byNumber, text)
                                    THEN "number" ELSE "name",
                         sortOrder |-> "asc"])]
C10_DispatchedRequest ==
  /\ dispatched # <<>> =>
       Sent.request = ExpectedRequest(Sent.search, Sent.sortByNumber, Sent.currentPage)
  /\ (dispatched # <<>> /\ Sent.search = <<>> /\ Sent.sortByNumber = None
        /\ Sent.currentPage = 1)
       => /\ Sent.request.call = "getList"
          /\ TheValue(Sent.request.params).search = None
          /\ TheValue(Sent.request.params).sortBy = "name"
          /\ TheValue(Sent.request.params).offset = 0

\* C10 witness: a two-term name search on a later page
C10_Witness ==
  /\ dispatched # <<>>
  /\ Sent.search = <<"a", " ", "1">>
  /\ Sent.sortByNumber = None
  /\ Sent.currentPage = 2
  /\ Sent.request.call = "getList"
  /\ TheValue(Sent.request.params).search = Some(<<"a", ",", "1">>)
  /\ TheValue(Sent.request.params).offset = 21

(***************************************************************************)
(* The list view: HomePage with its Header and Pagination on screen for a  *)
(* signed-in operator, from the first render of a new process on.  A step  *)
(* is one event (a click, a key stroke, the timer, an answer of the        *)
(* catalog) with the renders and effects it causes.                        *)
(***************************************************************************)
\* the texts typed into the search field
Typed == {<<>>, <<"a">>, <<"1">>}

\* HomePage is on screen and the effects of its first render have run
Mounted == queryEvent.op \notin {"start", "unmount"}

InitQuery ==
  /\ SignedIn
  /\ event = Event("start", None, None, None)
  /\ QueryIdle
  /\ DetailIdle

\* the effects of the first render: the Header starts its timer (its
\* setInputValue(searchValue) changes nothing), HomePage calls fetchPokemon
\* (its setCurrentPage(1) changes nothing)
HomeMount ==
  /\ View = "HomePage"
  /\ ~Mounted
  /\ timer' = Some(inputValue)
  /\ Dispatch(<<FetchCall(search, sortByNumber, currentPage)>>)
  /\ queryEvent' = QueryEvent("mount", 1, None, QueryBefore)
  /\ UNCHANGED <<authVars, detailVars, event, search, sortByNumber, currentPage, pokemon,
                 totalPages, inputValue, typed>>

\* onChange of the search field: setInputValue(e.target.value); the effect
\* with deps [inputValue, onSearchChange] clears the timer and sets a new one
InputChange(text) ==
  /\ View = "HomePage"
  /\ Mounted
  /\ text # inputValue
  /\ inputValue' = text
  /\ timer' = Some(text)
  /\ typed' = IF typed < MaxBurst THEN typed + 1 ELSE typed
  /\ queryEvent' = QueryEvent("input", 0, None, QueryBefore)
  /\ dispatched' = <<>>
  /\ UNCHANGED <<authVars, detailVars, event, search, sortByNumber, currentPage, inFlight,
                 pokemon, homeIsLoading, homeError, totalPages,
                 newestInFlight>>

\* the timer fires: onSearchChange(inputValue), which is setSearch.  A new
\* search renders HomePage again: its effects run, the Header writes search
\* back to inputValue and, handed a new onSearchChange, sets a new timer.
DebounceFire ==
  /\ View = "HomePage"
  /\ Mounted
  /\ IsSome(timer)
  /\ LET value == TheValue(timer)
         fx == HomeEffects(search, sortByNumber, currentPage,
                           value, sortByNumber, currentPage)
     IN /\ search' = value
        /\ currentPage' = fx.currentPage
        /\ Dispatch(fx.calls)
        /\ inputValue' = IF value # search THEN value ELSE inputValue
        /\ timer' = IF value # search THEN Some(value) ELSE None
        /\ queryEvent' = QueryEvent("commit", Len(fx.calls), None, QueryBefore)
  /\ typed' = 0
  /\ UNCHANGED <<authVars, detailVars, event, sortByNumber, pokemon, totalPages>>

\* a handleClearSearch that calls onSearchChange('') only, leaving the text
\* in the field and with it the timer that commits it
ClearSearch_KeepsInput ==
  /\ View = "HomePage"
  /\ Mounted
  /\ inputValue # <<>>
  /\ LET fx == HomeEffects(search, sortByNumber, currentPage,
                           <<>>, sortByNumber, currentPage)
     IN /\ search' = <<>>
        /\ currentPage' = fx.currentPage
        /\ Dispatch(fx.calls)
        /\ queryEvent' = QueryEvent("clear", Len(fx.calls), None, QueryBefore)
  /\ timer' = Some(inputValue)
  /\ UNCHANGED <<authVars, detailVars, event, sortByNumber, pokemon, totalPages,
                 inputValue, typed>>

\* handleClearSearch, the button the Header shows while inputValue is not
\* empty: setInputValue(''), onSearchChange('')
ClearSearch ==
  /\ View = "HomePage"
  /\ Mounted
  /\ inputValue # <<>>
  /\ LET fx == HomeEffects(search, sortByNumber, currentPage,
                           <<>>, sortByNumber, currentPage)
     IN /\ search' = <<>>
        /\ currentPage' = fx.currentPage
        /\ Dispatch(fx.calls)
        /\ queryEvent' = QueryEvent("clear", Len(fx.calls), None, QueryBefore)
  /\ inputValue' = <<>>
  /\ timer' = Some(<<>>)
  /\ typed' = 0
  /\ UNCHANGED <<authVars, detailVars, event, sortByNumber, pokemon, totalPages>>

\* handleSortChange(byNumber), the onChange of the radio of the sort modal
\* that is not checked yet: onToggleSort(byNumber), which is setSortByNumber
\* (the modal, which the sort button opens and this closes, is left out)
SortChange(byNumber) ==
  /\ View = "HomePage"
  /\ Mounted
  /\ sortByNumber # Some(byNumber)
  /\ LET fx == HomeEffects(search, sortByNumber, currentPage,
                           search, Some(byNumber), currentPage)
     IN /\ sortByNumber' = Some(byNumber)
        /\ currentPage' = fx.currentPage
        /\ Dispatch(fx.calls)
        /\ queryEvent' = QueryEvent("sort", Len(fx.calls), None, QueryBefore)
  /\ timer' = Some(inputValue)
  /\ UNCHANGED <<authVars, detailVars, event, search, pokemon, totalPages, inputValue, typed>>

\* a control of Pagination, which HomePage renders while it is not loading
\* and totalPages > 1: onPageChange(page), which is setCurrentPage
PageChange(page) ==
  /\ View = "HomePage"
  /\ Mounted
  /\ ~homeIsLoading
  /\ totalPages > 1
  /\ page \in PaginationEmits(currentPage, totalPages)
  /\ page # currentPage
  /\ page <= MaxPage
  /\ LET fx == HomeEffects(search, sortByNumber, currentPage,
                           search, sortByNumber, page)
     IN /\ currentPage' = fx.currentPage
        /\ Dispatch(fx.calls)
        /\ queryEvent' = QueryEvent("page", Len(fx.calls), None, QueryBefore)
  /\ timer' = Some(inputValue)
  /\ UNCHANGED <<authVars, detailVars, event, search, sortByNumber, pokemon, totalPages,
                 inputValue, typed>>

\* the Try Again button, shown while error is not empty: fetchPokemon()
TryAgain ==
  /\ View = "HomePage"
  /\ Mounted
  /\ homeError # ""
  /\ Dispatch(<<FetchCall(search, sortByNumber, currentPage)>>)
  /\ timer' = Some(inputValue)
  /\ queryEvent' = QueryEvent("retry", 1, None, QueryBefore)
  /\ UNCHANGED <<authVars, detailVars, event, search, sortByNumber, currentPage, pokemon,
                 totalPages, inputValue, typed>>

\* the catalog answers call i: the rest of that fetchPokemon.  When a state
\* of HomePage changed it renders again and the Header sets a new timer.
FetchReturn(i, http) ==
  /\ Mounted
  /\ i \in 1..Len(inFlight)
  /\ LET call == inFlight[i].call
         response == IF call = "getByNumber"
                     THEN pokemonApiGetByNumber(http) ELSE pokemonApiGetList(http)
         r == fetchPokemonResume(call, response)
         rendered == \/ r.setPokemon.set
                     \/ Apply(r.setError, homeError) # homeError
                     \/ homeIsLoading
     IN /\ pokemon' = Apply(r.setPokemon, pokemon)
        /\ totalPages' = Apply(r.setTotalPages, totalPages)
        /\ homeError' = Apply(r.setError, homeError)
        /\ currentPage' = Apply(r.setCurrentPage, currentPage)
        /\ timer' = IF rendered THEN Some(inputValue) ELSE timer
        /\ queryEvent' =
             QueryEvent("fetch.return", 0,
                        Some([call |-> call,
                              ok |-> response.success /\ IsSome(response.data),
                              total |-> IF response.success /\ IsSome(response.data)
                                        THEN Some(TheValue(response.data).pagination.total)
                                        ELSE None,
                              newest |-> newestInFlight /\ i = Len(inFlight),
                              applied |-> \/ r.setPokemon.set
                                          \/ r.setTotalPages.set
                                          \/ r.setError.set,
                              timerReset |-> rendered]),
                        QueryBefore)
  /\ homeIsLoading' = FALSE
  /\ inFlight' = Without(inFlight, i)
  /\ newestInFlight' = (newestInFlight /\ i # Len(inFlight))
  /\ dispatched' = <<>>
  /\ UNCHANGED <<authVars, detailVars, event, search, sortByNumber, inputValue,
                 typed>>

NextQuery ==
  \/ HomeMount
  \/ \E text \in Typed : InputChange(text)
  \/ DebounceFire
  \/ ClearSearch
  \/ \E byNumber \in BOOLEAN : SortChange(byNumber)
  \/ \E page \in 1..MaxPage : PageChange(page)
  \/ TryAgain
  \/ \E i \in 1..MaxInFlight, http \in CatalogOutcomes : FetchReturn(i, http)

SpecQuery == InitQuery /\ [][NextQuery]_vars

(***************************************************************************)
(* List view properties.                                                   *)
(***************************************************************************)
Earlier == TheValue(queryEvent.before)
FilterChanged ==
  /\ IsSome(queryEvent.before)
  /\ <<search, sortByNumber>> # <<Earlier.search, Earlier.sortByNumber>>

\* C11: after any change of the committed search text or of sortMode, page
\* is 1, whatever page was before the change.
C11_FilterChangeResetsPage == FilterChanged => currentPage = 1

\* C11 witness: a new search text is committed on page 3
C11_Witness ==
  /\ queryEvent.op = "commit"
  /\ FilterChanged
  /\ Earlier.currentPage = 3
  /\ currentPage = 1

\* the step committed the text of a burst: input changes, each made while the
\* timer of the one before was still pending, then the timer fired
BurstCommitted ==
  /\ queryEvent.op = "commit"
  /\ Earlier.typed >= 1

\* C12: a burst of input changes whose last text differs from the committed
\* one ends in one commit, of the last text of the burst, and that commit
\* dispatches exactly one fetch, whatever currentPage was before it.
C12_BurstOneCommitOneFetch ==
  (BurstCommitted /\ Earlier.inputValue # Earlier.search)
    => (search = Earlier.inputValue /\ queryEvent.calls = 1)

\* the step handled the answer of a fetchPokemon call
Answered == queryEvent.op = "fetch.return"
Answer == TheValue(queryEvent.answered)

\* C13: an answer changes pokemon, totalPages or error only if it is the
\* answer to the fetchPokemon call dispatched last.
C13_OnlyNewestApplied == (Answered /\ Answer.applied) => Answer.newest

\* the step handled an answer that fetchPokemon treats as a failure: not a
\* success with data
FetchFailed == Answered /\ ~Answer.ok

\* C14: after a failed fetch, of the list call or of the lookup, pokemon is
\* empty.
C14_FailureClearsResults == FetchFailed => pokemon.length = 0

\* C15: after a failed catalog call, of the list call or of the lookup, error
\* holds a message, so the view differs from the one of a successful answer
\* with no matches (error empty, pokemon empty).
C15_FailureShowsError == FetchFailed => homeError # ""

\* C16: a failed fetch leaves inputValue, search, sortByNumber and
\* currentPage as they were when its answer arrived.
C16_FailureKeepsQuery ==
  FetchFailed =>
    /\ inputValue = Earlier.inputValue
    /\ search = Earlier.search
    /\ sortByNumber = Earlier.sortByNumber
    /\ currentPage = Earlier.currentPage

\* C16 witness: the list call for page 2 of a committed text fails while the
\* search field holds a text not committed yet
C16_Witness ==
  /\ FetchFailed
  /\ Answer.call = "getList"
  /\ currentPage = 2
  /\ search = <<"a">>
  /\ inputValue = <<"1">>
  /\ homeError # ""

\* C17: after a successful fetch, of the list call or of the lookup,
\* totalPages is the pagination.total of its answer divided by 21, rounded up
\* (46 gives 3, 0 gives 0).
C17_TotalPagesIsCeiling ==
  (Answered /\ Answer.ok) =>
    /\ totalPages * ITEMS_PER_PAGE >= TheValue(Answer.total)
    /\ (totalPages - 1) * ITEMS_PER_PAGE < TheValue(Answer.total)

\* C17 witness: a list call answers with 46 matches and totalPages is 3
C17_Witness ==
  /\ Answered
  /\ Answer.ok
  /\ Answer.call = "getList"
  /\ Answer.total = Some(46)
  /\ totalPages = 3

\* C17 witness of the other example, in the other branch: a lookup answers
\* with no match and totalPages is 0
C17_WitnessZero ==
  /\ Answered
  /\ Answer.ok
  /\ Answer.call = "getByNumber"
  /\ Answer.total = Some(0)
  /\ totalPages = 0

\* HomePage renders Pagination
PaginationShown == Mounted /\ ~homeIsLoading /\ totalPages > 1

\* C18: while the latest answer applied had a match (totalPages >= 1), every
\* list request is dispatched for a currentPage in 1..totalPages, and the
\* controls of Pagination, when shown, pass only pages in 1..totalPages to
\* onPageChange.
C18_PageWithinRange ==
  /\ totalPages >= 1 =>
        \A k \in DOMAIN dispatched :
          dispatched[k].request.call = "getList"
            => dispatched[k].currentPage \in 1..totalPages
  /\ PaginationShown => PaginationEmits(currentPage, totalPages) \subseteq 1..totalPages

(***************************************************************************)
(* Session properties: the two keys of the store.                          *)
(***************************************************************************)
\* the token key is present iff the user key is
Paired(ls) == IsSome(ls[TOKEN_KEY]) <=> IsSome(ls[USER_KEY])
BothPresent(ls) == IsSome(ls[TOKEN_KEY]) /\ IsSome(ls[USER_KEY])

\* checkAuth has run to its end, login() has returned or logout() has run
SessionStepDone ==
  \/ event.op \in {"checkAuth.start", "checkAuth.return"} /\ checkAuth.pc = "done"
  \/ event.op \in {"login.return", "logout"}

\* C19 as stated: after checkAuth has run to its end and after every login
\* and logout, the token key is present iff the user key is, whatever the
\* store held when the process started.
C19_KeysPairedAfterSessionStep == SessionStepDone => Paired(localStorage)

\* C19 amended: the session operations write and delete the two keys
\* together.  After a successful login both are present, after a logout both
\* are absent, after a checkAuth that called verify they are both present or
\* both absent, and a step that changes the store leaves them so; every other
\* step (a checkAuth that finds a key missing, a failed login) leaves the
\* store as it was, so a store that was paired stays paired.
C19_KeysWrittenTogether ==
  IsSome(event.before) =>
    /\ (event.op = "login.return" /\ TheValue(event.result).success)
          => BothPresent(localStorage)
    /\ event.op = "logout" => KeysAbsent(localStorage)
    /\ event.op = "checkAuth.return"
          => (BothPresent(localStorage) \/ KeysAbsent(localStorage))
    /\ localStorage # Was.localStorage => Paired(localStorage)
    /\ Paired(Was.localStorage) => Paired(localStorage)

\* C19 witness: a failed verification removes both keys of a store that held
\* a token and a user
C19_Witness ==
  /\ event.op = "checkAuth.return"
  /\ BothPresent(Was.localStorage)
  /\ KeysAbsent(localStorage)

\* the login() call with this id is awaiting authApi.login
LoginPending(id) == id \in PendingIds(logins)

\* C20: when every call of authApi is answered or fails in the end, checkAuth
\* ends with isLoading false (the phase is Authenticated or Unauthenticated
\* from then on), and every login() call returns its result.
C20_BootstrapAndLoginsEnd ==
  /\ <>[](Phase \in {"Authenticated", "Unauthenticated"})
  /\ \A id \in CallIds : LoginPending(id) ~> ~LoginPending(id)

\* C20 witness: checkAuth has ended after a verify call that failed without
\* an answer, and a login() call has returned the failure of such a call
C20_Witness ==
  /\ checkAuth.pc = "done"
  /\ IsSome(checkAuth.token)
  /\ Phase = "Unauthenticated"
  /\ event.op = "login.return"
  /\ HttpOf(event).kind = "network"
  /\ ~TheValue(event.result).success

\* the reads of checkAuth failed
StoreReadFailed == event.op = "checkAuth.threw"

\* C21: when the reads of the store fail, checkAuth still ends, with
\* isLoading false and no user (phase Unauthenticated), and raises nothing.
C21_UnavailableStoreBootsUnauthenticated ==
  StoreReadFailed => (checkAuth.pc = "done" /\ Phase = "Unauthenticated")

\* the step calls authApi.verify
VerifyCalled == checkAuth.pc # "verify" /\ checkAuth'.pc = "verify"
\* the step belongs to the process of the state it starts in
SameProcess == event'.op # "start"

\* C22: within one process, authApi.verify is called by the mount effect
\* only, at most once, while isLoading is still true and only when the store
\* holds both keys; a checkAuth that does not call it ends in phase
\* Unauthenticated; isLoading never becomes true again; login and logout leave
\* checkAuth alone.
C22_VerifyOnceAtBoot ==
  [][SameProcess =>
       /\ VerifyCalled =>
            /\ checkAuth.pc = "start"
            /\ isLoading
            /\ BothPresent(localStorage)
            /\ event'.op = "checkAuth.start"
       /\ checkAuth.pc # "start" => checkAuth'.pc # "start"
       /\ (checkAuth.pc = "start" /\ checkAuth'.pc = "done")
            => Phase' = "Unauthenticated"
       /\ ~isLoading => ~isLoading'
       /\ event'.op \in {"login.call", "login.return", "logout"}
            => checkAuth' = checkAuth]_vars

\* C22 witness: a process that called verify when it started has since seen
\* a logout, and checkAuth is still where it ended
C22_Witness ==
  /\ event.op = "logout"
  /\ checkAuth.pc = "done"
  /\ IsSome(checkAuth.token)
  /\ Phase = "Unauthenticated"

\* C23: a logout() sends one logout request to the authority, and when it
\* returns the store holds neither key and the phase is Unauthenticated.
C23_LogoutNotifiesAuthority ==
  event.op = "logout" =>
    /\ Len(event.sent) = 1
    /\ event.sent[1].call = "logout"
    /\ KeysAbsent(localStorage)
    /\ Phase = "Unauthenticated"

\* the message with which the server rejected the login call, if it did: an
\* error status or a body with success false, carrying an error text
ServerRejection(http) ==
  IF http.kind = "status" THEN http.error
  ELSE IF http.kind = "ok" /\ ~TheValue(http.body).success
       THEN TheValue(http.body).error
       ELSE None

\* C24: a login() whose call got no response from the server returns the
\* failure 'Network error. Please try again.'; one the server rejected with
\* a message returns the failure with that message.
C24_LoginFailureMessages ==
  event.op = "login.return" =>
    /\ HttpOf(event).kind = "network" =>
          TheValue(event.result) =
            LoginResult(FALSE, Some("Network error. Please try again."))
    /\ IsSome(ServerRejection(HttpOf(event))) =>
          TheValue(event.result) = LoginResult(FALSE, ServerRejection(HttpOf(event)))

(***************************************************************************)
(* Query resolution properties: the normalized text.                       *)
(***************************************************************************)
\* the text a dispatched request carries: the ids of the lookup, the search
\* parameter of the list call (nothing when the parameter is left out)
SentText ==
  IF Sent.request.call = "getByNumber" THEN TheValue(Sent.request.ids)
  ELSE IF IsSome(TheValue(Sent.request.params).search)
       THEN TheValue(TheValue(Sent.request.params).search)
       ELSE <<>>
\* the terms of a comma-separated text; the empty text has none
RECURSIVE CommaTermsFrom(_, _, _)
CommaTermsFrom(text, i, term) ==
  IF i > Len(text) THEN <<term>>
  ELSE IF text[i] \in Commas THEN <<term>> \o CommaTermsFrom(text, i + 1, <<>>)
  ELSE CommaTermsFrom(text, i + 1, Append(term, text[i]))
CommaTerms(text) == IF text = <<>> THEN <<>> ELSE CommaTermsFrom(text, 1, <<>>)
NoWhitespace(text) == \A i \in 1..Len(text) : ~IsSpace(text[i])
NoEmptyTerm(text) == \A k \in 1..Len(CommaTerms(text)) : CommaTerms(text)[k] # <<>>
NoComma(text) == \A i \in 1..Len(text) : text[i] \notin Commas

NormalizedTokensJoined ==
  dispatched # <<>> =>
    /\ SentText = Normalized(Sent.search)
    /\ NoWhitespace(SentText)
    /\ NoComma(Sent.search) =>
          /\ NoEmptyTerm(SentText)
          /\ CommaTerms(SentText) = TokensOf(Sent.search)

WhitespaceOnly(text) == text # <<>> /\ \A i \in 1..Len(text) : IsSpace(text[i])
\* the request the same sort mode and page produce for the empty text
EmptyTextRequest == fetchPokemon(<<>>, Sent.sortByNumber, Sent.currentPage)

\* C26: for every sort mode and page, a committed text of whitespace only
\* produces the request of the empty text: the list call without a search
\* parameter, sorted by number exactly when Number is selected, never the
\* identifier lookup.
C26_WhitespaceOnlyAsEmpty ==
  (dispatched # <<>> /\ WhitespaceOnly(Sent.search)) =>
    /\ Sent.request = EmptyTextRequest
    /\ Sent.request.call = "getList"
    /\ TheValue(Sent.request.params).search = None
    /\ TheValue(Sent.request.params).sortBy =
         (IF Sent.sortByNumber = Some(TRUE) THEN "number" ELSE "name")
    /\ TheValue(Sent.request.params).offset = (Sent.currentPage - 1) * ITEMS_PER_PAGE

\* C26 witness: two blanks under the unset sort mode on the second page leave
\* as the plain list call
C26_Witness ==
  /\ dispatched # <<>>
  /\ Sent.search = <<" ", " ">>
  /\ Sent.sortByNumber = None
  /\ Sent.currentPage = 2
  /\ Sent.request.call = "getList"

(***************************************************************************)
(* The list view left and entered again.  HomePage and its Header are      *)
(* unmounted when the location leaves /pokemon/list or the guard sends the *)
(* operator to /login; the FilterProvider is above the routes and stays.   *)
(***************************************************************************)
\* HomePage and its Header are unmounted: the cleanup of the Header's effect
\* clears the timer, the setters of the fetchPokemon calls still awaiting
\* the catalog do nothing any more, and the state of both components is
\* gone.  Their variables hold what the next first render starts from.
HomeUnmount ==
  /\ pokemon' = Pokemons(0)
  /\ homeIsLoading' = TRUE
  /\ homeError' = ""
  /\ currentPage' = 1
  /\ totalPages' = 1
  /\ inputValue' = search
  /\ timer' = None
  /\ inFlight' = <<>>
  /\ typed' = 0
  /\ newestInFlight' = FALSE
  /\ dispatched' = <<>>
  /\ queryEvent' = QueryEvent("unmount", 0, None, QueryBefore)
  /\ UNCHANGED <<search, sortByNumber>>

\* the Link of a PokemonCard, or the browser's history, moves the location
\* from the list to a detail page
ListLeave ==
  /\ View = "HomePage"
  /\ Mounted
  /\ route' = Settle(DetailPath, isLoading, isAuthenticated(user))
  /\ event' = Event("navigate", None, None, Before)
  /\ HomeUnmount
  /\ UNCHANGED <<localStorage, user, isLoading, checkAuth, logins, loginForm, loginWrote,
                 detailVars>>

\* a logout that takes the filter of the FilterProvider with it
ListLogout_ResetsFilter ==
  /\ View = "HomePage"
  /\ Mounted
  /\ LET r == logout(localStorage)
     IN /\ localStorage' = r.localStorage
        /\ user' = Apply(r.setUser, user)
        /\ route' = Settle(route, isLoading, isAuthenticated(Apply(r.setUser, user)))
        /\ loginWrote' = IF r.localStorage = localStorage THEN loginWrote ELSE None
  /\ loginForm' = FreshForm
  /\ event' = Event("logout", None, None, Before)
  /\ pokemon' = Pokemons(0)
  /\ homeIsLoading' = TRUE
  /\ homeError' = ""
  /\ currentPage' = 1
  /\ totalPages' = 1
  /\ inputValue' = <<>>
  /\ timer' = None
  /\ inFlight' = <<>>
  /\ typed' = 0
  /\ newestInFlight' = FALSE
  /\ dispatched' = <<>>
  /\ queryEvent' = QueryEvent("unmount", 0, None, QueryBefore)
  /\ search' = <<>>
  /\ sortByNumber' = None
  /\ UNCHANGED <<isLoading, checkAuth, logins, detailVars>>

\* the logout button of the Header while the list is shown: logout(), after
\* which ProtectedRoute renders <Navigate to="/login"> in place of HomePage
ListLogout ==
  /\ View = "HomePage"
  /\ Mounted
  /\ LET r == logout(localStorage)
     IN /\ localStorage' = r.localStorage
        /\ user' = Apply(r.setUser, user)
        /\ route' = Settle(route, isLoading, isAuthenticated(Apply(r.setUser, user)))
        /\ loginWrote' = IF r.localStorage = localStorage THEN loginWrote ELSE None
  /\ loginForm' = FreshForm
  /\ event' = Event("logout", None, None, Before)
  /\ HomeUnmount
  /\ UNCHANGED <<isLoading, checkAuth, logins, detailVars>>

\* a link or the browser's history while another view than the list is shown
\* (the Link to "/" of the detail page leads back to the list)
AwayNavigate(path) ==
  /\ View # "HomePage"
  /\ UserNavigate(path)

InitVisit == InitQuery

\* what the operator types, what the catalog answers and what the authority
\* answers a login with while the list view is left and entered again: one
\* text, a catalog of three pages, a new session or no answer at all
VisitTyped == {<<"a">>}
VisitCatalogOutcomes ==
  {HttpOk(ApiResponse(TRUE, Some(PaginatedResponse(Results(t), t)), None)) :
     t \in {46}}
VisitLoginOutcomes ==
  {HttpOk(ApiResponse(TRUE, Some(d), None)) : d \in {x \in LoginData : x.token = "t2"}}
    \cup {HttpNetwork}

NextVisit ==
  \/ HomeMount
  \/ \E text \in VisitTyped : InputChange(text)
  \/ DebounceFire
  \/ \E byNumber \in BOOLEAN : SortChange(byNumber)
  \/ \E page \in 1..MaxPage : PageChange(page)
  \/ \E i \in 1..MaxInFlight, http \in VisitCatalogOutcomes : FetchReturn(i, http)
  \/ ListLeave
  \/ ListLogout
  \/ \E path \in Paths : AwayNavigate(path)
  \/ \E form \in FilledForm : LoginSubmit(form.username, form.password)
  \/ \E i \in 1..MaxLogins, http \in VisitLoginOutcomes : LoginReturn(i, http)

SpecVisit == InitVisit /\ [][NextVisit]_vars

(***************************************************************************)
(* Sort mode properties.                                                   *)
(***************************************************************************)
\* one selection in the sort modal takes the list view to the sort mode
SelectableInOneStep(mode) ==
  ENABLED ((\E byNumber \in BOOLEAN : SortChange(byNumber)) /\ sortByNumber' = mode)
\* the list view is shown and its fetches have room to leave
SortModalUsable == View = "HomePage" /\ Mounted /\ inFlight = <<>>

\* C27: from each of the three sort modes each of the other two is
\* reachable by a single user selection; in particular the unset mode is
\* reachable again after Number or Name has been selected.
C27_EveryModeSelectable ==
  SortModalUsable =>
    \A mode \in SortModes \ {sortByNumber} : SelectableInOneStep(mode)

\* what the two radios do give: Number and Name are each one selection away
\* from every other mode, and no selection leads to the unset mode
SetModesSelectable ==
  SortModalUsable =>
    /\ \A mode \in {Some(TRUE), Some(FALSE)} \ {sortByNumber} : SelectableInOneStep(mode)
    /\ ~SelectableInOneStep(None)

\* once a sort mode is selected no step of the list view unsets it
UnsetNeverRestored == [][sortByNumber # None => sortByNumber' # None]_vars

(***************************************************************************)
(* Properties of the filter across session changes and visits of other     *)
(* views.                                                                  *)
(***************************************************************************)
\* a login or logout transition: the logout button, a submit of the login
\* form, the return of a login call
SessionTransition ==
  \/ ListLogout
  \/ \E form \in FilledForm : LoginSubmit(form.username, form.password)
  \/ \E i \in 1..MaxLogins, http \in VisitLoginOutcomes : LoginReturn(i, http)

\* C28: login and logout transitions leave the committed search text and
\* the sort mode unchanged; the filter is not reset when the session changes.
C28_SessionKeepsFilter ==
  [][SessionTransition => (search' = search /\ sortByNumber' = sortByNumber)]_vars

\* C28 witness: after a logout and a new login the list view is about to be
\* mounted with the text and the sort mode committed in the earlier session
C28_Witness ==
  /\ event.op = "login.return"
  /\ Phase = "Authenticated"
  /\ View = "HomePage"
  /\ queryEvent.op = "unmount"
  /\ search = <<"a">>
  /\ sortByNumber = Some(TRUE)
  /\ Earlier.search = search
  /\ Earlier.sortByNumber = sortByNumber

\* the list view is entered again after a visit of another view
ListReturn ==
  /\ queryEvent.op = "unmount"
  /\ queryEvent'.op = "mount"
  /\ event.op = "navigate"

\* C29: leaving the list view (for a detail page) and returning to it
\* preserves the committed search text, the sort mode and the page: all
\* three have the values they had before leaving.
C29_ReturnKeepsQuery ==
  [][ListReturn =>
       /\ search' = Earlier.search
       /\ sortByNumber' = Earlier.sortByNumber
       /\ currentPage' = Earlier.currentPage]_vars

\* what the return does keep: the text and the sort mode of the
\* FilterProvider; the page is the first again
ReturnKeepsFilterOnly ==
  [][ListReturn =>
       /\ search' = Earlier.search
       /\ sortByNumber' = Earlier.sortByNumber
       /\ currentPage' = 1]_vars

(***************************************************************************)
(* Properties of the credential requests carry.                            *)
(***************************************************************************)
\* the credential a store holds: the text under the token key, if there is
\* one and it is not empty
StoredCredential(ls) ==
  IF ls[TOKEN_KEY] # None /\ TheValue(ls[TOKEN_KEY]) # "" THEN ls[TOKEN_KEY] ELSE None
\* the bearer credential of a request, if it carries one
BearerOf(request) ==
  IF request.authorization = None THEN None
  ELSE IF TheValue(request.authorization)[1] = "Bearer"
       THEN Some(TheValue(request.authorization)[2])
       ELSE Some("")
\* a step of the list view that sends requests to the catalog
CatalogDispatch == dispatched' # <<>> /\ queryVars' # queryVars

\* C30: every request to the authority or the catalog carries as bearer
\* exactly the credential the store holds when the request is dispatched,
\* and none iff the store holds none; no request dispatched after a logout
\* carries the credential of before the logout.
C30_RequestsCarryStoredCredential ==
  [][/\ \A k \in 1..Len(event'.sent) :
          BearerOf(event'.sent[k]) = StoredCredential(TheValue(event'.before).localStorage)
     /\ CatalogDispatch =>
          \A k \in 1..Len(dispatched') :
            BearerOf(dispatched'[k]) = StoredCredential(localStorage)
     /\ (event.op = "logout" /\ event'.sent # <<>>) =>
          \A k \in 1..Len(event'.sent) : BearerOf(event'.sent[k]) = None]_vars

\* C30 witness: after a logout and a login that brought another credential
\* the list view sends its request with the new credential
C30_Witness ==
  /\ event.op = "login.return"
  /\ TheValue(event.before).localStorage[TOKEN_KEY] = None
  /\ localStorage[TOKEN_KEY] = Some("t2")
  /\ queryEvent.op = "mount"
  /\ dispatched # <<>>
  /\ BearerOf(dispatched[1]) = Some("t2")

(***************************************************************************)
(* The detail page and the remaining calls of api.ts; every remote call    *)
(* with its caller.                                                        *)
(***************************************************************************)
\* bodies a server may answer GET /pokemons/:id with (status 2xx); the
\* detail record is kept as its id
DetailBodies ==
  {ApiResponse(TRUE, Some([id |-> 1]), None), ApiResponse(TRUE, None, None),
   ApiResponse(FALSE, None, None)}
    \cup {ApiResponse(FALSE, None, Some(m)) : m \in CatalogMessages}
DetailOutcomes ==
  {HttpOk(b) : b \in DetailBodies} \cup CatalogFailures \cup {HttpStatus(None)}
\* bodies a server may answer POST /auth/logout with (status 2xx)
LogoutBodies == {ApiResponse(TRUE, None, None), ApiResponse(FALSE, None, Some("Invalid token"))}
LogoutOutcomes == {HttpOk(b) : b \in LogoutBodies} \cup HttpFailures

\* a getById without the catch block
pokemonApiGetById_Rethrows(http) ==
  IF http.kind = "ok" THEN Resolved(TheValue(http.body)) ELSE Rejected

\* pokemonApi.getById, as the caller's await sees it: the response body, or
\* on any throw
\* { success: false, error: error.response?.data?.error || 'Failed to fetch Pokémon details' }
pokemonApiGetById(http) ==
  IF http.kind = "ok" THEN Resolved(TheValue(http.body))
  ELSE Resolved(ApiResponse(FALSE, None,
                            Some(OrElse(http.error, "Failed to fetch Pokémon details"))))

\* authApi.logout, as a caller's await would see it: the response body, or
\* on any throw { success: true }
authApiLogout(http) ==
  IF http.kind = "ok" THEN Resolved(TheValue(http.body))
  ELSE Resolved(ApiResponse(TRUE, None, None))

\* the effect of PokemonDetailPage with deps [id], up to its await:
\* setIsLoading(true), setError(''), pokemonApi.getById(id) leaves
DetailMount ==
  /\ View = "PokemonDetailPage"
  /\ detail.pc = "start"
  /\ detail' = [detail EXCEPT !.isLoading = TRUE, !.error = "", !.pc = "awaiting"]
  /\ event' = EventSent("getById.call", None, None, Before,
                        <<AuthRequest("getById", localStorage)>>)
  /\ UNCHANGED <<authVars, queryVars>>

\* getById answers: the rest of the effect's fetchPokemon, which has no
\* try block of its own; a rejected await would end it before
\* setIsLoading(false)
DetailReturn(http) ==
  /\ View = "PokemonDetailPage"
  /\ detail.pc = "awaiting"
  /\ LET awaited == pokemonApiGetById(http)
     IN /\ detail' =
             IF awaited.threw THEN [detail EXCEPT !.pc = "threw"]
             ELSE LET response == TheValue(awaited.value)
                  IN IF response.success /\ IsSome(response.data)
                     THEN [detail EXCEPT !.pokemon = TRUE, !.isLoading = FALSE,
                                         !.pc = "done"]
                     ELSE [detail EXCEPT
                             !.error = OrElse(response.error, "Failed to load Pokémon"),
                             !.isLoading = FALSE, !.pc = "done"]
        /\ event' = Event("getById.return", Some(http), awaited.value, Before)
  /\ UNCHANGED <<authVars, queryVars>>

\* the back link or the Go Back button of the detail page: to "/", which
\* leads to the list; PokemonDetailPage is unmounted
DetailLeave ==
  /\ View = "PokemonDetailPage"
  /\ detail.pc # "start"
  /\ route' = Settle(OtherPath, isLoading, isAuthenticated(user))
  /\ detail' = DetailFresh
  /\ event' = Event("navigate", None, None, Before)
  /\ UNCHANGED <<localStorage, user, isLoading, checkAuth, logins, loginForm,
                 loginWrote, queryVars>>

\* the process from its start, with every remote call and its caller: the
\* bootstrap, the login form, the list view and the detail page
InitCalls == InitAuth

NextCalls ==
  \/ CheckAuthStart
  \/ \E http \in VerifyOutcomes : CheckAuthReturn(http)
  \/ \E form \in FilledForm : LoginSubmit(form.username, form.password)
  \/ \E i \in 1..MaxLogins, http \in LoginOutcomes : LoginReturn(i, http)
  \/ HomeMount
  \/ \E i \in 1..MaxInFlight, http \in CatalogOutcomes : FetchReturn(i, http)
  \/ TryAgain
  \/ ListLeave
  \/ ListLogout
  \/ DetailMount
  \/ \E http \in DetailOutcomes : DetailReturn(http)
  \/ DetailLeave

SpecCalls == InitCalls /\ [][NextCalls]_vars

(***************************************************************************)
(* Properties of remote-call failures.                                     *)
(***************************************************************************)
\* the remote call ended in a transport error or an error status
RemoteFailure(http) == http.kind \in {"status", "network"}
\* the server's message if the failure carries one, else the fallback
MessageOr(http, fallback) ==
  IF http.error # None /\ TheValue(http.error) # "" THEN TheValue(http.error)
  ELSE fallback
Failure(message) == ApiResponse(FALSE, None, Some(message))
\* what each call of api.ts hands to its caller for every failure: a value,
\* never an exception
CallsYieldValues ==
  /\ \A http \in {h \in LoginOutcomes : RemoteFailure(h)} :
       authApiLogin(http) = Failure(MessageOr(http, "Login failed"))
  /\ \A http \in {h \in VerifyOutcomes : RemoteFailure(h)} :
       authApiVerify(http) = Failure("Token verification failed")
  /\ \A http \in {h \in LogoutOutcomes : RemoteFailure(h)} :
       authApiLogout(http) = Resolved(ApiResponse(TRUE, None, None))
  /\ \A http \in {h \in CatalogOutcomes : RemoteFailure(h)} :
       pokemonApiGetList(http) = Failure(MessageOr(http, "Failed to fetch Pokémon"))
  /\ \A http \in {h \in DetailOutcomes : RemoteFailure(h)} :
       pokemonApiGetById(http) =
         Resolved(Failure(MessageOr(http, "Failed to fetch Pokémon details")))

\* C31: no failure of a remote call (transport error or error status) in
\* login, verify, logout, list or get-by-identifier reaches the caller as an
\* exception: the call yields { success: false, error } with the server's
\* message or a fixed fallback (logout yields success), and the caller has
\* turned it into state when its step ends.
C31_FailuresBecomeState ==
  /\ CallsYieldValues
  /\ (event.op = "login.return" /\ RemoteFailure(HttpOf(event))) =>
       /\ TheValue(event.result) =
            LoginResult(FALSE, Some(MessageOr(HttpOf(event), "Login failed")))
       /\ loginForm = [isLoading |-> FALSE,
                       error |-> MessageOr(HttpOf(event), "Login failed"),
                       touched |-> TRUE]
       /\ View = "LoginPage"
  /\ (event.op = "checkAuth.return" /\ RemoteFailure(HttpOf(event))) =>
       /\ checkAuth.pc = "done"
       /\ Phase = "Unauthenticated"
       /\ KeysAbsent(localStorage)
  /\ (FetchFailed /\ Answer.call = "getList") =>
       /\ ~homeIsLoading
       /\ homeError \in CatalogMessages \cup {"Failed to fetch Pokémon", "Failed to load Pokémon"}
  /\ (event.op = "getById.return" /\ RemoteFailure(HttpOf(event))) =>
       /\ detail.pc = "done"
       /\ ~detail.isLoading
       /\ detail.error = MessageOr(HttpOf(event), "Failed to fetch Pokémon details")

\* C31 witness: the detail page after a transport failure of getById shows
\* the fallback message of the call
C31_Witness ==
  /\ event.op = "getById.return"
  /\ HttpOf(event).kind = "network"
  /\ View = "PokemonDetailPage"
  /\ detail = [pokemon |-> FALSE, isLoading |-> FALSE,
               error |-> "Failed to fetch Pokémon details", pc |-> "done"]

(***************************************************************************)
(* Properties of the retry and of the first request of the list view.      *)
(***************************************************************************)
\* the Try Again button is on screen: HomePage renders it while error is set
RetryAvailable == View = "HomePage" /\ Mounted /\ homeError # ""
\* the step that led here was a click on Try Again
Retried == queryEvent.op = "retry"
\* Try Again sent one request, that of the text, sort mode and page the
\* error was shown for, and changed none of the three
RetrySendsSameQuery ==
  Retried =>
    /\ queryEvent.calls = 1
    /\ Len(dispatched) = 1
    /\ Sent.request = fetchPokemon(Earlier.search, Earlier.sortByNumber, Earlier.currentPage)
    /\ <<search, sortByNumber, currentPage>> =
         <<Earlier.search, Earlier.sortByNumber, Earlier.currentPage>>
\* mounting the list view sent one request
MountSendsOneRequest ==
  queryEvent.op = "mount" => (queryEvent.calls = 1 /\ Len(dispatched) = 1)

\* C32: after a failed fetch the retry action is available; invoking it
\* dispatches exactly one request, with the parameters of the failed one,
\* and changes none of search text, sort mode and page; mounting the list
\* view dispatches exactly one request.
C32_RetryAfterFailedFetch ==
  /\ FetchFailed => RetryAvailable
  /\ RetrySendsSameQuery
  /\ MountSendsOneRequest

\* what holds: the retry is available after a failed list call, and it and
\* the mount send one request each
RetryAfterFailedList ==
  /\ (FetchFailed /\ Answer.call = "getList") => RetryAvailable
  /\ RetrySendsSameQuery
  /\ MountSendsOneRequest

(***************************************************************************)
(* Properties of the debounce window.                                      *)
(***************************************************************************)
\* a fetch was answered while a commit of typed text was waiting for its
\* timer
AnsweredWhileCommitPending == Answered /\ Earlier.typed > 0

\* C33: a pending commit of the search text is postponed only by further
\* input: a fetch that completes in the meantime does not start the 300 ms
\* window again.
C33_OnlyInputPostponesCommit ==
  AnsweredWhileCommitPending => ~Answer.timerReset

\* what holds: a pending timer always carries the text of the search field,
\* so the commit, when it comes, is that of the last input
PendingCommitIsLastInput == IsSome(timer) => TheValue(timer) = inputValue

(***************************************************************************)
(* Properties of the requests a filter change sends.                       *)
(***************************************************************************)
\* the offset of a list request; the lookup has none
OffsetOf(request) == TheValue(request.params).offset
\* the committed text or the sort mode changed on a page after the first
FilterChangedBeyondFirstPage == FilterChanged /\ Earlier.currentPage > 1

\* C34: when the committed search text or the sort mode changes on page
\* k > 1, no list request combines the new text or sort with the old offset
\* (k-1)*21: exactly one request results from the change, with offset 0.
C34_FilterChangeSendsOneRequest ==
  FilterChangedBeyondFirstPage =>
    /\ Len(dispatched) = 1
    /\ \A k \in 1..Len(dispatched) :
         dispatched[k].request.call = "getList" => OffsetOf(dispatched[k].request) = 0

\* what holds: the request sent last by the change is that of the new text
\* and sort mode on page 1
FilterChangeEndsOnFirstPage ==
  FilterChangedBeyondFirstPage =>
    /\ dispatched # <<>>
    /\ dispatched[Len(dispatched)].request = fetchPokemon(search, sortByNumber, 1)

(***************************************************************************)
(* Properties of the loading flag.                                         *)
(***************************************************************************)
FetchPending == inFlight # <<>>

\* C35: the loading flag of the list view is true in exactly the states
\* where at least one fetch is in flight: the first of two overlapping
\* fetches to complete leaves it true, and it is false once none is pending.
C35_LoadingIffFetchPending == Mounted => (homeIsLoading <=> FetchPending)

\* what holds: loading is false once no fetch is pending, and it is true
\* after every step that sent a request
LoadingFalseWhenIdle ==
  Mounted =>
    /\ ~FetchPending => ~homeIsLoading
    /\ dispatched # <<>> => homeIsLoading

(***************************************************************************)
(* Properties of the clear control.                                        *)
(***************************************************************************)
Cleared == queryEvent.op = "clear"
Committed == queryEvent.op = "commit"

\* C36: the clear control empties the text of the field and the committed
\* text at once, without waiting for the debounce window, and cancels a
\* pending commit: the timer left holds the empty text, and since every
\* commit is of the text the field held when the timer fired, text typed
\* before the clear is not committed afterwards.
C36_ClearCommitsEmptyAtOnce ==
  /\ Cleared =>
       /\ inputValue = <<>>
       /\ search = <<>>
       /\ typed = 0
       /\ timer \in {None, Some(<<>>)}
  /\ Committed => search = Earlier.inputValue

\* C36 witness: the field held a typed text that was not committed yet, over
\* another committed text, when the clear control was used
C36_Witness ==
  /\ Cleared
  /\ Earlier.typed > 0
  /\ Earlier.inputValue = <<"a">>
  /\ Earlier.search = <<"1">>
  /\ search = <<>>
  /\ inputValue = <<>>

(***************************************************************************)
(* Properties of the typed and the committed search text.                  *)
(***************************************************************************)
\* the field holds text that is not committed
TypedAhead == inputValue # search
\* the step was an edit of the field by the operator: a key or the clear
\* control
Edited == queryEvent'.op \in {"input", "clear"}
\* with no timer pending the committed text is the text of the field
NoTimerMeansCommitted == (Mounted /\ timer = None) => search = inputValue
\* the write-back of a commit leaves the field as it was when the timer fired
WriteBackKeepsField ==
  (queryEvent'.op = "commit" /\ queryEvent' # queryEvent) => inputValue' = inputValue
\* text that is typed ahead has a timer waiting to commit it
TypedAheadHasTimer == TypedAhead => timer = Some(inputValue)

\* C37: whenever no commit is pending the committed text equals the text of
\* the field; the write-back of a commit does not overwrite the field; and
\* text typed ahead of the committed text stays, with its commit pending,
\* until it is committed or edited, so that after input stops the
\* committed text becomes the last typed text.
C37_TypedTextGetsCommitted ==
  [][/\ NoTimerMeansCommitted'
     /\ WriteBackKeepsField
     /\ TypedAheadHasTimer'
     /\ (TypedAhead /\ ~Edited) => inputValue' = inputValue]_vars

\* what holds: everything but the last part, which holds while the list
\* view stays mounted
TypedTextCommittedWhileMounted ==
  [][/\ NoTimerMeansCommitted'
     /\ WriteBackKeepsField
     /\ TypedAheadHasTimer'
     /\ (TypedAhead /\ ~Edited /\ queryEvent'.op # "unmount") =>
          inputValue' = inputValue]_vars

(***************************************************************************)
(* Properties of the identifier lookup.                                    *)
(***************************************************************************)
\* call k of the step is the identifier lookup
LookupSent(k) == dispatched[k].request.call = "getByNumber"
\* the lookup carries the comma-joined terms of its text and nothing else,
\* and is the request of that text and mode on every page
LookupIgnoresPage(k) ==
  LET sent == dispatched[k]
  IN /\ sent.request.params = None
     /\ sent.request.ids = Some(Normalized(sent.search))
     /\ \A page \in 1..MaxPage :
          fetchPokemon(sent.search, sent.sortByNumber, page) = sent.request
\* a page control was used while the text and mode resolve to the lookup
PageChangedUnderLookup ==
  /\ queryEvent.op = "page" /\ dispatched # <<>> /\ LookupSent(1)
\* n is the least number of pages of ITEMS_PER_PAGE that hold total items
PagesFor(n, total) ==
  /\ n * ITEMS_PER_PAGE >= total
  /\ (n - 1) * ITEMS_PER_PAGE < total \/ n = 0
LookupAnswered == Answered /\ Answer.call = "getByNumber" /\ Answer.ok

\* C38: while the request is the identifier lookup it does not depend on
\* the page: it carries only the comma-joined terms, a page change sends
\* the one lookup that the page before it had sent, and totalPages is the
\* total of the lookup's answer divided by 21, rounded up.
C38_LookupIgnoresPage ==
  /\ \A k \in 1..Len(dispatched) : LookupSent(k) => LookupIgnoresPage(k)
  /\ PageChangedUnderLookup =>
       /\ Len(dispatched) = 1
       /\ currentPage # Earlier.currentPage
       /\ Sent.request =
            fetchPokemon(Earlier.search, Earlier.sortByNumber, Earlier.currentPage)
  /\ LookupAnswered => PagesFor(totalPages, TheValue(Answer.total))
C38_Witness ==
  /\ PageChangedUnderLookup /\ currentPage = 3 /\ totalPages = 3
  /\ Sent.request = GetByNumber(<<"1">>)

(***************************************************************************)
(* The login form with every text its fields are submitted with.           *)
(***************************************************************************)
NextForm ==
  \/ CheckAuthStart
  \/ \E http \in VerifyOutcomes : CheckAuthReturn(http)
  \/ \E username \in FormUsernames, password \in FormPasswords :
       LoginSubmit(username, password)
  \/ \E i \in 1..MaxLogins, http \in LoginOutcomes : LoginReturn(i, http)
  \/ \E path \in Paths : UserNavigate(path)

SpecForm == InitAuth /\ [][NextForm]_vars

\* the form has just called login(); Submitted is what it passed
LoginCalled == event.op = "login.call"
Submitted == event.sent[1].body
NonBlank(text) == \E i \in 1..Len(text) : ~IsSpace(text[i])
\* the pending login() calls of the form that is on screen
LiveCalls == {i \in 1..Len(logins) : logins[i].live}
\* a login() call of the form that is on screen has returned a failure
LoginRefused ==
  /\ event.op = "login.return"
  /\ event.live
  /\ ~TheValue(event.result).success

\* C39: the login form calls login() only with a username that is not
\* blank and has at least 3 characters and a password of at least 4
\* characters, and never while a call it made before is pending; when the
\* result is a failure it shows the message of the result and the login
\* view stays.
C39_FormCallsLoginWhenValid ==
  /\ LoginCalled =>
       /\ NonBlank(Submitted.username) /\ Len(Submitted.username) >= 3
       /\ Len(Submitted.password) >= 4
       /\ Cardinality(LiveCalls) = 1
  /\ Cardinality(LiveCalls) <= 1
  /\ LiveCalls # {} => loginForm.isLoading /\ View = "LoginPage"
  /\ event.op = "login.invalid" => event.sent = <<>> /\ ~loginForm.isLoading
  /\ LoginRefused =>
       /\ View = "LoginPage"
       /\ route = LoginPath
       /\ ~loginForm.isLoading
       /\ loginForm.error = TheValue(TheValue(event.result).error)
       /\ loginForm.error # ""
C39_Witness ==
  /\ LoginCalled
  /\ Submitted = [username |-> <<"a", "b", " ">>, password |-> <<" ", " ", " ", " ">>]
  /\ Len(logins) = MaxLogins
\* a refused login is shown by the form that made it
LoginRefusedShown == LoginRefused /\ loginForm.error = "Invalid credentials"
\* a submit with a form that is not valid has left only touched behind
InvalidSubmitSeen == event.op = "login.invalid" /\ loginForm.touched

====
